---------------------------- MODULE Spec2Model ----------------------------
(***************************************************************************)
(* Settlement and remote-ledger engine of the wifi agent portal.           *)
(*                                                                         *)
(*   SpecReq : one SasClientService.request call (retry loop, audit trail, *)
(*             retry delays).                                              *)
(*   Spec    : the payment settlement state machine: concurrent handler    *)
(*             invocations (webhook notification, callback return, status  *)
(*             poll, cancel, refund) on payment records, with the          *)
(*             settlement orchestrator AgentsService.completeTopUp.        *)
(*   SpecTok : SasTokenService.getSasToken called by concurrent            *)
(*             AgentsService.getAgentInfo invocations, with a clock.       *)
(*   SpecEnc : the EncryptionService encrypt / decrypt round trip.         *)
(*   SpecSettle : top-ups started by topUpWallet and settled by webhook    *)
(*             notifications, next to AuthService.agentLogin and a remote  *)
(*             ledger whose account ids can change.                        *)
(*   SpecReqLive : SpecReq with the scheduling of one call, for            *)
(*             termination.                                                *)
(*   SpecLogin : SasClientService.login calls, one after the other.        *)
(*   SpecGateway : the two readers of a provider status in                 *)
(*             QiCardGatewayService.                                       *)
(*   SpecUsers : the UsersService operations and their agent lookup.       *)
(***************************************************************************)
EXTENDS Integers, Sequences, FiniteSets, TLC

VARIABLES
    \* ---- SasClientService (unnamed/part_002) ----
    maxRetries,     \* this.maxRetries, read from configuration at construction
    retryDelay,     \* this.retryDelay, read from configuration at construction
    attempt,        \* local `attempt` of request()
    lastError,      \* local `lastError` of request()
    rpc,            \* position of the request() call
    inFlight,       \* HTTP attempts dispatched and not yet answered
    outcomes,       \* answers received by the attempts of the call, in order
    auditLog,       \* audit records written by the call, in order
    auditLost,      \* audit writes of the call that failed and were swallowed
    delays,         \* retry delays waited by the call, in order (ms)
    result,         \* how the call ended
    \* ---- payment settlement (payment.service, agents.service, webhook) ----
    payments,       \* the PaymentTransaction table, by payment number
    agents,         \* the Agent table: cached token and cached remote id
    task,           \* the handler invocations (in flight or ended)
    settleCalls,    \* per payment: invocations of AgentsService.completeTopUp
    deposits,       \* deposit calls issued to the remote ledger
    sasAccounts,    \* the remote ledger: numeric account id of each agent
    createAnswer,   \* how the latest PaymentService.createPayment call ended
    gatewayResults, \* what the gateway's two status readers returned, in order
    \* ---- EncryptionService (common/encryption) ----
    encryptionKey,  \* this.encryptionKey, read from configuration at construction
    plainText,      \* the argument of encrypt
    cipherText,     \* what encrypt returned or threw
    decrypted,      \* what decrypt returned or threw for that cipher text
    encPc,          \* position of the encrypt / decrypt round trip
    \* ---- SasTokenService (unnamed/part_011) and its callers ----
    now,            \* the clock, in hours
    agentRows,      \* the Agent table: encryptedSasToken, sasTokenExpiresAt
    call,           \* the operations that ask for an agent's token
    loginsInFlight, \* per agent: remote logins dispatched and not yet answered
    issued,         \* tokens the remote ledger has issued so far
    rejected        \* per agent: cached tokens the remote ledger answered 401 to

reqVars == <<maxRetries, retryDelay, attempt, lastError, rpc, inFlight,
             outcomes, auditLog, auditLost, delays, result>>

payVars == <<payments, agents, task, settleCalls, deposits, sasAccounts,
            createAnswer, gatewayResults>>

encVars == <<encryptionKey, plainText, cipherText, decrypted, encPc>>

tokVars == <<now, agentRows, call, loginsInFlight, issued, rejected>>

vars == <<reqVars, payVars, encVars, tokVars>>

---------------------------------------------------------------------------
(* Bounds of the model                                                     *)

\* largest configured sas.maxRetries explored (0 is explored as well)
MaxRetriesCap == 4

\* handler invocations (each runs once; those started run concurrently)
MaxTasks == 2

\* longest string (in UTF-16 code units) handed to encrypt
MaxLen == 3

\* operations that ask for an agent's token (each runs once; those started
\* run concurrently)
MaxCallers == 2

\* last hour of the clock
MaxTime == 3

---------------------------------------------------------------------------
(* Records of the payment settlement state machine                         *)

\* Every handler addresses one payment record and no handler touches two, so
\* one record is modelled; "unknown" is a transaction id no record carries.
PaymentIds == {"P1"}

\* identifiers of a payment: the gateway's payment id (the key webhooks
\* address the record by), the request id the gateway client generated, and
\* the uuid topUpWallet generated
Id(kind, p) == [kind |-> kind, payment |-> p]

NoId == [kind |-> "none", payment |-> "none"]

NoMetadata ==
    [topUpCompleted |-> FALSE, topUpError |-> FALSE, transactionId |-> NoId]

IdleTask ==
    [op |-> "idle", pc |-> "idle", pid |-> "none", status |-> "none",
     snapMeta |-> NoMetadata,
     snapTokenValid |-> FALSE, verified |-> FALSE, madeCompleted |-> FALSE,
     settle |-> "none", response |-> "none", lookup |-> "none",
     gateway |-> "none", calls |-> <<>>, agentSasId |-> 0]

NoPayment ==
    [exists |-> FALSE, status |-> "none", serviceType |-> "none",
     agentId |-> "none", amount |-> 0, processedAt |-> FALSE,
     paymentDetails |-> "none", transactionId |-> NoId, referenceId |-> NoId,
     metadata |-> NoMetadata]

NoAgentCache == [tokenValid |-> FALSE, sasManagerId |-> 0]

AgentIds == {"A1", "A2"}

\* the numeric account id the remote ledger first reports for an agent
RemoteId(agentId) == IF agentId = "A1" THEN 229 ELSE 230

InitPay ==
    /\ payments = [p \in PaymentIds |-> NoPayment]
    /\ agents = [a \in AgentIds |-> NoAgentCache]
    /\ task = [t \in 1..MaxTasks |-> IdleTask]
    /\ settleCalls = [p \in PaymentIds |-> 0]
    /\ deposits = {}
    /\ sasAccounts = [a \in AgentIds |-> RemoteId(a)]
    /\ createAnswer = "none"
    /\ gatewayResults = <<>>

\* an agent row without a cached token (0 stands for a null expiry)
NoToken == [encryptedSasToken |-> <<>>, sasTokenExpiresAt |-> 0]

IdleCall ==
    [pc |-> "idle", agent |-> "none", cacheValid |-> FALSE, token |-> <<>>,
     source |-> "none", logins |-> 0, rejectedAtStart |-> {},
     result |-> "none"]

\* the token service at rest
IdleTok ==
    /\ now = 1
    /\ agentRows = [a \in AgentIds |-> NoToken]
    /\ call = [c \in 1..MaxCallers |-> IdleCall]
    /\ loginsInFlight = [a \in AgentIds |-> 0]
    /\ issued = 0
    /\ rejected = [a \in AgentIds |-> {}]

\* encrypt or decrypt has not been called
NotYet == [error |-> "notCalled", text |-> <<>>]

\* the encryption state at rest
IdleEnc ==
    /\ encryptionKey = 3
    /\ plainText = <<>>
    /\ cipherText = NotYet
    /\ decrypted = NotYet
    /\ encPc = "idle"

---------------------------------------------------------------------------
(* SasClientService.request                                                *)

\* sas.retryDelay values explored; 1000 is the default of sas.config.ts
RetryDelays == {250, 1000}

\* what one HTTP attempt can end with: a 2xx answer, or an axios failure
HttpOutcomes == {"ok", "timeout", "network", "http500", "http401"}

NoError == "undefined"

\* axios.isAxiosError(error) && error.response?.status === 401
IsAuthError_Never(error) == FALSE
IsAuthError(error) == error = "http401"

\* the argument of this.delay() after failed attempt number `n`
RetryDelayFor_Constant(delay, n) == delay
RetryDelayFor(delay, n) == delay * n

\* the guard of the wait before the next attempt
ShouldWait_Never(n, max) == FALSE
ShouldWait(n, max) == n < max

\* the loop condition of request()
MayAttempt_OneMore(n, max) == n <= max
MayAttempt(n, max) == n < max

AuditRecord(action, n) == [action |-> action, attempt |-> n]

\* the action of the audit record written for an attempt's outcome: the
\* try block logs SAS_RESPONSE_SUCCESS, the catch block SAS_RESPONSE_FAILED
ResponseAction_Success(outcome) == "SAS_RESPONSE_SUCCESS"
ResponseAction(outcome) ==
    IF outcome = "ok" THEN "SAS_RESPONSE_SUCCESS" ELSE "SAS_RESPONSE_FAILED"

\* AuditService.log: the record is inserted, or the insert fails and the
\* error is logged locally and swallowed
auditServiceLog_Drop(log, record, stored) == log
auditServiceLog(log, record, stored) ==
    IF stored THEN Append(log, record) ELSE log

\* how the caller of AuditService.log goes on: log catches the error of a
\* failed insert and returns, so the caller's result is what it was
ResultAfterAudit_Rethrown(callResult, stored) ==
    IF stored THEN callResult ELSE "auditError"
ResultAfterAudit(callResult, stored) == callResult

\* the count of swallowed audit failures after one more write
auditServiceLost(lost, stored) == IF stored THEN lost ELSE lost + 1

\* `while (attempt < this.maxRetries) { attempt++; ... await auditService.log(SAS_REQUEST)`
\* followed by the dispatch of the HTTP request (the local preparation of
\* the request, axios instance and payload encryption, does not fail)
RequestDispatch ==
    /\ rpc = "loop"
    /\ MayAttempt(attempt, maxRetries)
    /\ attempt' = attempt + 1
    /\ \E stored \in BOOLEAN :
        /\ auditLog' = auditServiceLog(auditLog,
                           AuditRecord("SAS_REQUEST", attempt + 1), stored)
        /\ auditLost' = auditServiceLost(auditLost, stored)
        /\ result' = ResultAfterAudit(result, stored)
    /\ inFlight' = inFlight + 1
    /\ rpc' = "awaiting"
    /\ UNCHANGED <<maxRetries, retryDelay, lastError, outcomes, delays>>
    /\ UNCHANGED <<payVars, encVars, tokVars>>

\* the attempt answers 2xx: audit SAS_RESPONSE_SUCCESS, return response.data
RequestSuccess ==
    /\ rpc = "awaiting"
    /\ inFlight' = inFlight - 1
    /\ outcomes' = Append(outcomes, "ok")
    /\ \E stored \in BOOLEAN :
        /\ auditLog' = auditServiceLog(auditLog,
                           AuditRecord(ResponseAction("ok"), attempt), stored)
        /\ auditLost' = auditServiceLost(auditLost, stored)
        /\ result' = ResultAfterAudit("response", stored)
    /\ rpc' = "done"
    /\ UNCHANGED <<maxRetries, retryDelay, attempt, lastError, delays>>
    /\ UNCHANGED <<payVars, encVars, tokVars>>

\* the attempt fails (catch block): audit SAS_RESPONSE_FAILED, then either
\* throw 401, or start the retry delay, or fall back to the loop test
RequestFailure ==
    /\ rpc = "awaiting"
    /\ \E error \in HttpOutcomes \ {"ok"} :
        /\ inFlight' = inFlight - 1
        /\ outcomes' = Append(outcomes, error)
        /\ lastError' = error
        /\ \E stored \in BOOLEAN :
            /\ auditLog' = auditServiceLog(auditLog,
                               AuditRecord(ResponseAction(error), attempt), stored)
            /\ auditLost' = auditServiceLost(auditLost, stored)
            /\ result' = ResultAfterAudit(
                             IF IsAuthError(error) THEN "err401" ELSE result,
                             stored)
        /\ rpc' = IF IsAuthError(error) THEN "done"
                  ELSE IF ShouldWait(attempt, maxRetries) THEN "delay" ELSE "loop"
    /\ UNCHANGED <<maxRetries, retryDelay, attempt, delays>>
    /\ UNCHANGED <<payVars, encVars, tokVars>>

\* delay(ms) is `new Promise(resolve => setTimeout(resolve, ms))`: the timer
\* fires for every ms, so the promise always resolves
delayResolves_Never(ms) == FALSE
delayResolves(ms) == TRUE

\* `await this.delay(this.retryDelay * attempt)` elapses
RequestDelay ==
    /\ rpc = "delay"
    /\ delayResolves(RetryDelayFor(retryDelay, attempt))
    /\ delays' = Append(delays, RetryDelayFor(retryDelay, attempt))
    /\ rpc' = "loop"
    /\ UNCHANGED <<maxRetries, retryDelay, attempt, lastError, inFlight,
                   outcomes, auditLog, auditLost, result>>
    /\ UNCHANGED <<payVars, encVars, tokVars>>

\* the loop ends: `lastError.message` is read for the log line (a TypeError
\* when no attempt ever ran), then the 503 HttpException is thrown
RequestExhausted ==
    /\ rpc = "loop"
    /\ ~MayAttempt(attempt, maxRetries)
    /\ result' = IF lastError = NoError THEN "typeError" ELSE "err503"
    /\ rpc' = "done"
    /\ UNCHANGED <<maxRetries, retryDelay, attempt, lastError, inFlight,
                   outcomes, auditLog, auditLost, delays>>
    /\ UNCHANGED <<payVars, encVars, tokVars>>

InitReq ==
    /\ maxRetries \in 0..MaxRetriesCap
    /\ retryDelay \in RetryDelays
    /\ attempt = 0
    /\ lastError = NoError
    /\ rpc = "loop"
    /\ inFlight = 0
    /\ outcomes = <<>>
    /\ auditLog = <<>>
    /\ auditLost = 0
    /\ delays = <<>>
    /\ result = "none"
    /\ InitPay
    /\ IdleEnc
    /\ IdleTok

NextReq ==
    \/ RequestDispatch
    \/ RequestSuccess
    \/ RequestFailure
    \/ RequestDelay
    \/ RequestExhausted

SpecReq == InitReq /\ [][NextReq]_vars

\* Scheduling of one call: the loop's own steps run as soon as they can, every
\* dispatched attempt is answered (axios is created with `timeout:
\* this.requestTimeout`, so a silent remote side ends as a failure), and
\* every timer set by delay() fires.
FairReq ==
    /\ WF_vars(RequestDispatch)
    /\ WF_vars(RequestSuccess \/ RequestFailure)
    /\ WF_vars(RequestDelay)
    /\ WF_vars(RequestExhausted)

SpecReqLive == InitReq /\ [][NextReq]_vars /\ FairReq


---------------------------------------------------------------------------
(* Payment gateway (QiCardGatewayService)                                  *)

\* provider status values: the five the gateway knows, one it does not
\* know, and a notification without a status field
QiStatuses == {"SUCCESS", "PENDING", "FAILED", "CANCELLED", "REFUNDED",
               "AUTHORIZED", "undefined"}

\* statusMap is an object literal, so a lookup by a property name of
\* Object.prototype finds the inherited property: a function or an object,
\* truthy, and no PaymentStatus
ObjectPrototypeKeys == {"constructor", "toString", "__proto__"}

\* statusMap[qiStatus] || PaymentStatus.FAILED
mapQiStatusToInternal(qiStatus) ==
    CASE qiStatus = "SUCCESS"   -> "completed"
      [] qiStatus = "PENDING"   -> "pending"
      [] qiStatus = "FAILED"    -> "failed"
      [] qiStatus = "CANCELLED" -> "cancelled"
      [] qiStatus = "REFUNDED"  -> "refunded"
      [] qiStatus \in ObjectPrototypeKeys -> "inherited"
      [] OTHER                  -> "failed"

\* processWebhookNotification: shouldUpdateDatabase
shouldUpdateDatabase_Always(status) == TRUE
shouldUpdateDatabase(status) == status \in {"completed", "failed"}

\* the status handleCallback hands to processWebhook:
\* status === 'completed' ? 'SUCCESS' : status.toUpperCase()
CallbackWebhookStatus(status) ==
    CASE status = "completed" -> "SUCCESS"
      [] status = "pending"   -> "PENDING"
      [] status = "failed"    -> "FAILED"
      [] status = "cancelled" -> "CANCELLED"
      [] status = "refunded"  -> "REFUNDED"

\* signatures a notification can carry in x-signature
Signatures == {"missing", "invalid", "valid"}

\* verifyWebhookSignature: false without the public key file, otherwise
\* the RSA-SHA256 verification of the signature
verifyWebhookSignature(signature, keyFileExists) ==
    keyFileExists /\ signature = "valid"

\* handleNotification: the token check, the missing-signature check and
\* the signature verification, all of which must pass
NotificationAccepted_TokenOnly(tokenOk, signature, keyFileExists) == tokenOk
NotificationAccepted(tokenOk, signature, keyFileExists) ==
    /\ tokenOk
    /\ signature # "missing"
    /\ verifyWebhookSignature(signature, keyFileExists)

---------------------------------------------------------------------------
(* PaymentService                                                          *)

ServiceTypes == {"agent_top_up", "user_activation"}

Amounts == {10000, 25000}

TerminalStatuses == {"completed", "failed", "cancelled", "refunded"}

Finish(tk, response) ==
    [tk EXCEPT !.pc = "done", !.response = response, !.status = "none",
               !.snapMeta = IdleTask.snapMeta, !.snapTokenValid = FALSE,
               !.calls = <<>>, !.agentSasId = 0]

\* a handler invocation takes the next free slot
CanStart(t) ==
    /\ task[t].op = "idle"
    /\ IF t = 1 THEN TRUE ELSE task[t - 1].op # "idle"

\* PaymentService.createPayment: the record stored once the gateway has
\* created payment p; transactionId is the gateway's payment id,
\* referenceId the gateway client's request id, metadata the caller's
StoredPayment(p, agentId, serviceType, amount, metadata) ==
    [exists |-> TRUE, status |-> "pending", serviceType |-> serviceType,
     agentId |-> agentId, amount |-> amount, processedAt |-> FALSE,
     paymentDetails |-> "created", transactionId |-> Id("paymentId", p),
     referenceId |-> Id("requestId", p), metadata |-> metadata]

\* payment methods a request can name; only qi_card has a gateway
PaymentMethods == {"qi_card", "zain_cash"}

\* getPaymentGateway: a gateway is returned, or unsupportedMethod is thrown
getPaymentGateway(paymentMethod) == paymentMethod = "qi_card"

\* what the provider answers to QiCardGatewayService.createPayment's POST: a
\* body with a paymentId, a body without one, or an HTTP error
GatewayCreateAnswers == {"paymentId", "noPaymentId", "httpError"}

\* QiCardGatewayService.createPayment: paymentResult.success
paymentResultSuccess(answer) == answer = "paymentId"

\* PaymentService.createPayment reaches paymentTransaction.create
MayPersist_Always(supported, success) == TRUE
MayPersist(supported, success) == supported /\ success

\* PaymentService.createPayment: the gateway is selected and creates the
\* payment, then the record is stored with status pending; an unsupported
\* method and a gateway failure are thrown before the record is stored
PaymentServiceCreatePayment(p, agentId, serviceType, amount, paymentMethod, answer, metadata) ==
    LET supported == getPaymentGateway(paymentMethod)
        success == paymentResultSuccess(answer)
    IN  /\ payments' = IF MayPersist(supported, success)
             THEN [payments EXCEPT ![p] =
                     StoredPayment(p, agentId, serviceType, amount, metadata)]
             ELSE payments
        /\ createAnswer' = IF ~supported THEN "unsupportedMethod"
                           ELSE IF ~success THEN "createFailed"
                           ELSE "created"

\* createPayment called through the payments endpoint; the request carries
\* no metadata
createPayment ==
    \E p \in PaymentIds, agentId \in AgentIds, serviceType \in ServiceTypes,
       amount \in Amounts, paymentMethod \in PaymentMethods,
       answer \in GatewayCreateAnswers :
        /\ ~payments[p].exists
        /\ PaymentServiceCreatePayment(p, agentId, serviceType, amount,
                                       paymentMethod, answer, NoMetadata)
        /\ UNCHANGED <<agents, task, settleCalls, deposits>>
        /\ UNCHANGED <<reqVars, encVars, tokVars, gatewayResults, sasAccounts>>

\* updatePaymentStatus: status, processedAt and paymentDetails are written
\* whatever the stored status is
updatePaymentStatus(record, status, details) ==
    [record EXCEPT !.status = status, !.processedAt = TRUE,
                   !.paymentDetails = details]

\* what the handler answers once processWebhook has returned; the error
\* thrown after markTopUpError is caught by the outer catch of
\* processSuccessfulPayment, so processWebhook returns normally
HandlerAnswer(op) == IF op = "notification" THEN "ok" ELSE "redirect"

\* findUnique finds a record
Exists(p) == IF p \in PaymentIds THEN payments[p].exists ELSE FALSE

\* processWebhook after its findUnique: the record that was read, the
\* gateway's reading of the notification, and where the handler goes next
ProcessWebhookRead(tk, p, qiStatus) ==
    IF ~Exists(p)
      THEN Finish(tk, HandlerAnswer(tk.op))
      ELSE LET status == mapQiStatusToInternal(qiStatus) IN
           IF shouldUpdateDatabase(status)
             THEN [tk EXCEPT !.pc = "pw_update", !.pid = p, !.status = status,
                             !.snapMeta = payments[p].metadata]
             ELSE Finish([tk EXCEPT !.pid = p], HandlerAnswer(tk.op))

\* handleNotification up to the first database write: token and signature
\* checks, then processWebhook's findUnique and processWebhookNotification
handleNotification(t) ==
    /\ CanStart(t)
    /\ \E tokenOk \in BOOLEAN, signature \in Signatures,
          keyFileExists \in BOOLEAN, p \in PaymentIds \cup {"unknown"},
          qiStatus \in QiStatuses :
        LET truly == tokenOk /\ verifyWebhookSignature(signature, keyFileExists)
            tk == [IdleTask EXCEPT !.op = "notification", !.verified = truly]
        IN  task' = [task EXCEPT ![t] =
                IF NotificationAccepted(tokenOk, signature, keyFileExists)
                  THEN ProcessWebhookRead(tk, p, qiStatus)
                  ELSE Finish([tk EXCEPT !.pid = p], "badRequest")]
    /\ UNCHANGED <<payments, agents, settleCalls, deposits>>
    /\ UNCHANGED <<reqVars, encVars, tokVars, gatewayResults, sasAccounts, createAnswer>>

\* handleCallback up to the gateway status query: token check, paymentId
\* check, getPaymentByTransactionId
handleCallback(t) ==
    /\ CanStart(t)
    /\ \E tokenOk \in BOOLEAN, p \in PaymentIds \cup {"unknown", "missing"} :
        LET tk == [IdleTask EXCEPT !.op = "callback", !.verified = tokenOk]
        IN  task' = [task EXCEPT ![t] =
                IF ~tokenOk \/ p = "missing" \/ ~Exists(p)
                  THEN Finish(tk, "redirect")
                  ELSE IF payments[p].status = "pending"
                    THEN [tk EXCEPT !.pc = "cb_status", !.pid = p]
                    ELSE Finish([tk EXCEPT !.pid = p], "redirect")]
    /\ UNCHANGED <<payments, agents, settleCalls, deposits>>
    /\ UNCHANGED <<reqVars, encVars, tokVars, gatewayResults, sasAccounts, createAnswer>>

\* handleCallback: the gateway answers the status query; a status other
\* than pending is handed to processWebhook, which reads the record
CallbackStatus(t) ==
    /\ task[t].pc = "cb_status"
    /\ \E gatewayOk \in BOOLEAN, qiStatus \in QiStatuses :
        LET status == mapQiStatusToInternal(qiStatus) IN
        task' = [task EXCEPT ![t] =
            IF gatewayOk /\ status # "pending"
              THEN ProcessWebhookRead([@ EXCEPT !.gateway = "status"], @.pid,
                                      CallbackWebhookStatus(status))
              ELSE Finish([@ EXCEPT !.gateway = "status"], "redirect")]
    /\ UNCHANGED <<payments, agents, settleCalls, deposits>>
    /\ UNCHANGED <<reqVars, encVars, tokVars, gatewayResults, sasAccounts, createAnswer>>

\* processWebhook: `if (result.status === PaymentStatus.COMPLETED)`
SettlesOn_Never(status) == FALSE
SettlesOn(status) == status = "completed"

\* processSuccessfulPayment:
\* `if (payment.serviceType === ServiceType.AGENT_TOP_UP)`
IsTopUp_Always(serviceType) == TRUE
IsTopUp(serviceType) == serviceType = "agent_top_up"

\* processWebhook: updatePaymentStatus, then processSuccessfulPayment up to
\* the first await of completeTopUp, which it calls for a top-up payment
\* (for another service type it only writes the audit record)
ProcessWebhookUpdate(t) ==
    /\ task[t].pc = "pw_update"
    /\ LET p == task[t].pid
           status == task[t].status
           made == payments[p].status = "pending" /\ status = "completed"
           settles == SettlesOn(status) /\ IsTopUp(payments[p].serviceType)
       IN
        /\ payments' = [payments EXCEPT ![p] =
                           updatePaymentStatus(@, status, "webhook")]
        /\ settleCalls' = [settleCalls EXCEPT ![p] = IF settles THEN @ + 1 ELSE @]
        /\ task' = [task EXCEPT ![t] =
             IF settles
               THEN [@ EXCEPT !.pc = "ctu_pre", !.madeCompleted = made,
                              !.settle = "called"]
               ELSE Finish([@ EXCEPT !.madeCompleted = made], HandlerAnswer(@.op))]
    /\ UNCHANGED <<agents, deposits>>
    /\ UNCHANGED <<reqVars, encVars, tokVars, gatewayResults, sasAccounts, createAnswer>>

---------------------------------------------------------------------------
(* AgentsService.completeTopUp                                             *)

\* agentSasId = agent.sasManagerId || currentInfo.client?.id (0 stands for
\* an id that is not set)
AgentSasId_Reported(cached, reported) == reported
AgentSasId(cached, reported) == IF cached # 0 THEN cached ELSE reported

\* task.calls is the history of the remote calls of a completeTopUp that
\* has reached its deposit; it is kept up to the metadata update once the
\* deposit has been accepted.
\* One call completeTopUp makes to the remote system: its name, the bearer
\* token it is sent with ("none" for a login, which sends credentials),
\* whether the token it obtained is stored in the agent's row, and whether
\* it succeeded
RemoteCall(name, token, stored, ok) ==
    [name |-> name, token |-> token, stored |-> stored, ok |-> ok]

\* getSasToken(agent) as completeTopUp calls it: nothing remote when the
\* agent record handed in holds a valid token, otherwise a login whose token
\* is stored
GetSasTokenCalls(recordTokenValid, ok) ==
    IF recordTokenValid THEN <<>>
    ELSE <<RemoteCall("agentLogin", "none", TRUE, ok)>>

\* the remote calls of completeTopUp before the deposit, up to and
\* including the one that fails
CallsBeforeDeposit(recordTokenValid, failAt) ==
    LET login == GetSasTokenCalls(recordTokenValid, failAt # "login")
        info  == <<RemoteCall("getUserInfo", "agent", FALSE, failAt # "info")>>
        admin == <<RemoteCall("adminLogin", "none", FALSE,
                              failAt # "adminLogin")>>
    IN  CASE failAt = "agent" -> <<>>
          [] failAt = "login" -> login
          [] failAt \in {"info", "sasId"} -> login \o info
          [] OTHER -> login \o info \o admin

\* the remote calls of completeTopUp after the deposit
CallsAfterDeposit(recordTokenValid, failAt) ==
    LET login == GetSasTokenCalls(recordTokenValid, failAt # "login")
        info  == <<RemoteCall("getUserInfo", "agent", FALSE, failAt # "info")>>
    IN  IF failAt = "login" THEN login ELSE login \o info

\* completeTopUp up to the deposit: agent lookup, getSasToken (a remote
\* login when no valid token is cached, then the token is stored),
\* getUserInfo, caching of sasManagerId, administrator login.  failAt names
\* the call that fails, "none" when all succeed.
CompleteTopUpPre(t) ==
    /\ task[t].pc = "ctu_pre"
    /\ LET p == task[t].pid
           a == payments[p].agentId
           ag == agents[a]
       IN
        /\ \E failAt \in {"agent", "login", "info", "sasId", "adminLogin", "none"} :
            /\ failAt = "login" => ~ag.tokenValid
            /\ failAt = "sasId" => ag.sasManagerId = 0
            /\ agents' = [agents EXCEPT ![a] =
                 [tokenValid |->
                     IF failAt \in {"agent", "login"} THEN ag.tokenValid ELSE TRUE,
                  sasManagerId |->
                     IF ag.sasManagerId = 0 /\ failAt \in {"adminLogin", "none"}
                       THEN AgentSasId(ag.sasManagerId, sasAccounts[a])
                       ELSE ag.sasManagerId]]
            /\ task' = [task EXCEPT ![t] =
                 IF failAt = "none"
                   THEN [@ EXCEPT !.pc = "ctu_deposit",
                                  !.snapTokenValid = ag.tokenValid,
                                  !.agentSasId =
                                      AgentSasId(ag.sasManagerId, sasAccounts[a]),
                                  !.calls = CallsBeforeDeposit(ag.tokenValid,
                                                               failAt)]
                   ELSE [@ EXCEPT !.pc = "psp_mark", !.settle = "failed"]]
    /\ UNCHANGED <<payments, settleCalls, deposits>>
    /\ UNCHANGED <<reqVars, encVars, tokVars, gatewayResults, sasAccounts, createAnswer>>

\* processSuccessfulPayment:
\* transactionId = payment.metadata?.transactionId || payment.transactionId
SettlementTransactionId_Reference(payment) == payment.referenceId
SettlementTransactionId(payment) ==
    IF payment.metadata.transactionId # NoId
      THEN payment.metadata.transactionId
      ELSE payment.transactionId

\* the deposit topUpAgentBalance sends for a payment
DepositFor_AgentToken(t, p) ==
    [task |-> t, payment |-> p, manager_id |-> task[t].agentSasId,
     amount |-> payments[p].amount, token |-> "agent",
     transaction_id |-> SettlementTransactionId(payments[p])]
DepositFor_Double(t, p) ==
    [task |-> t, payment |-> p, manager_id |-> task[t].agentSasId,
     amount |-> 2 * payments[p].amount, token |-> "admin",
     transaction_id |-> SettlementTransactionId(payments[p])]
DepositFor(t, p) ==
    [task |-> t, payment |-> p, manager_id |-> task[t].agentSasId,
     amount |-> payments[p].amount, token |-> "admin",
     transaction_id |-> SettlementTransactionId(payments[p])]

\* completeTopUp: topUpAgentBalance, a request() call that ends with the
\* response or with the 401 or 503 error
CompleteTopUpDeposit(t) ==
    /\ task[t].pc = "ctu_deposit"
    /\ deposits' = deposits \cup {DepositFor(t, task[t].pid)}
    /\ \E answer \in {"response", "err401", "err503"} :
        task' = [task EXCEPT ![t] =
            LET sent == Append(@.calls,
                    RemoteCall("deposit", DepositFor(t, @.pid).token, FALSE,
                               answer = "response"))
            IN  IF answer = "response"
                  THEN [@ EXCEPT !.pc = "ctu_post", !.calls = sent]
                  ELSE [@ EXCEPT !.pc = "psp_mark", !.settle = "failed",
                                 !.calls = <<>>]]
    /\ UNCHANGED <<payments, agents, settleCalls>>
    /\ UNCHANGED <<reqVars, encVars, tokVars, gatewayResults, sasAccounts, createAnswer>>

\* completeTopUp after the deposit: getSasToken on the agent record loaded
\* at the start (a second login when that record held no valid token),
\* getUserInfo, audit
CompleteTopUpPost(t) ==
    /\ task[t].pc = "ctu_post"
    /\ LET a == payments[task[t].pid].agentId IN
       \E failAt \in {"login", "info", "none"} :
        /\ failAt = "login" => ~task[t].snapTokenValid
        /\ agents' = [agents EXCEPT ![a].tokenValid =
                         IF ~task[t].snapTokenValid /\ failAt # "login"
                           THEN TRUE ELSE @]
        /\ task' = [task EXCEPT ![t] =
             [@ EXCEPT !.pc = "psp_mark",
                       !.settle = IF failAt = "none" THEN "ok" ELSE "failed",
                       !.calls = @ \o CallsAfterDeposit(task[t].snapTokenValid,
                                                        failAt)]]
    /\ UNCHANGED <<payments, settleCalls, deposits>>
    /\ UNCHANGED <<reqVars, encVars, tokVars, gatewayResults, sasAccounts, createAnswer>>

---------------------------------------------------------------------------
(* PaymentService.processSuccessfulPayment after completeTopUp             *)

\* metadata: {...payment.metadata, topUpCompleted: true, ...}
markTopUpCompleted(record, snapMeta) ==
    [record EXCEPT !.metadata = [snapMeta EXCEPT !.topUpCompleted = TRUE]]

\* metadata: {...payment.metadata, topUpError: message, ...}
markTopUpError_Revert(record, snapMeta) ==
    [record EXCEPT !.status = "failed",
                   !.metadata = [snapMeta EXCEPT !.topUpError = TRUE]]
markTopUpError(record, snapMeta) ==
    [record EXCEPT !.metadata = [snapMeta EXCEPT !.topUpError = TRUE]]

\* the metadata update that follows completeTopUp, and the handler's answer
MarkTopUp(t) ==
    /\ task[t].pc = "psp_mark"
    /\ LET p == task[t].pid IN
        payments' = [payments EXCEPT ![p] =
            IF task[t].settle = "ok"
              THEN markTopUpCompleted(@, task[t].snapMeta)
              ELSE markTopUpError(@, task[t].snapMeta)]
    /\ task' = [task EXCEPT ![t] = Finish(@, HandlerAnswer(@.op))]
    /\ UNCHANGED <<agents, settleCalls, deposits>>
    /\ UNCHANGED <<reqVars, encVars, tokVars, gatewayResults, sasAccounts, createAnswer>>

---------------------------------------------------------------------------
(* PaymentService: status poll, cancel, refund                             *)

\* the lookup and ownership check shared by the agent-facing operations
NotFound_AbsentOnly(p, caller) == ~Exists(p)
NotFound(p, caller) ==
    IF Exists(p) THEN payments[p].agentId # caller ELSE TRUE

\* what the lookup met: no record, another agent's record, the caller's own
Lookup(p, caller) ==
    IF ~Exists(p) THEN "absent"
    ELSE IF payments[p].agentId # caller THEN "foreign" ELSE "own"

\* cancelPayment: `payment.status !== PaymentStatus.PENDING` is rejected
CanCancel_Always(status) == TRUE
CanCancel(status) == status = "pending"

\* refundPayment: `payment.status !== PaymentStatus.COMPLETED` is rejected
CanRefund(status) == status = "completed"

\* getPaymentById: the record is returned to its owner
getPaymentById(t) ==
    /\ CanStart(t)
    /\ \E p \in PaymentIds \cup {"unknown"}, caller \in AgentIds :
        LET tk == [IdleTask EXCEPT !.op = "get", !.pid = p,
                                   !.lookup = Lookup(p, caller)] IN
        task' = [task EXCEPT ![t] =
            IF NotFound(p, caller) THEN Finish(tk, "notFound")
            ELSE Finish(tk, "ok")]
    /\ UNCHANGED <<payments, agents, settleCalls, deposits>>
    /\ UNCHANGED <<reqVars, encVars, tokVars, gatewayResults, sasAccounts, createAnswer>>

\* checkPaymentStatus up to the gateway query
checkPaymentStatus(t) ==
    /\ CanStart(t)
    /\ \E p \in PaymentIds \cup {"unknown"}, caller \in AgentIds :
        LET tk == [IdleTask EXCEPT !.op = "poll", !.pid = p,
                                   !.lookup = Lookup(p, caller)] IN
        task' = [task EXCEPT ![t] =
            IF NotFound(p, caller) THEN Finish(tk, "notFound")
            ELSE IF payments[p].status \in TerminalStatuses THEN Finish(tk, "ok")
            ELSE [tk EXCEPT !.pc = "poll_gw"]]
    /\ UNCHANGED <<payments, agents, settleCalls, deposits>>
    /\ UNCHANGED <<reqVars, encVars, tokVars, gatewayResults, sasAccounts, createAnswer>>

\* checkPaymentStatus after its updatePaymentStatus:
\* `return this.mapToResponseDto(updatedPayment)`, with no call of
\* processSuccessfulPayment
AfterPollWrite_Settles(tk, made) ==
    IF made
      THEN [tk EXCEPT !.pc = "ctu_pre", !.madeCompleted = made,
                      !.gateway = "status", !.settle = "called"]
      ELSE Finish([tk EXCEPT !.madeCompleted = made, !.gateway = "status"], "ok")
AfterPollWrite(tk, made) ==
    Finish([tk EXCEPT !.madeCompleted = made, !.gateway = "status"], "ok")

\* checkPaymentStatus: the gateway answers; a status that differs from the
\* one read (pending) is written with updatePaymentStatus, the gateway's
\* answer (which carries the provider's status) as payment details
checkPaymentStatusUpdate(t) ==
    /\ task[t].pc = "poll_gw"
    /\ \E gatewayOk \in BOOLEAN, qiStatus \in QiStatuses :
        LET p == task[t].pid
            status == mapQiStatusToInternal(qiStatus)
            made == payments[p].status = "pending" /\ status = "completed"
        IN  IF gatewayOk /\ status # "pending"
              THEN /\ payments' = [payments EXCEPT ![p] =
                                      updatePaymentStatus(@, status, qiStatus)]
                   /\ task' = [task EXCEPT ![t] = AfterPollWrite(@, made)]
              ELSE /\ payments' = payments
                   /\ task' = [task EXCEPT ![t] =
                        Finish([@ EXCEPT !.gateway = "status"], "ok")]
    /\ UNCHANGED <<agents, settleCalls, deposits>>
    /\ UNCHANGED <<reqVars, encVars, tokVars, gatewayResults, sasAccounts, createAnswer>>

\* cancelPayment up to the gateway call
cancelPayment(t) ==
    /\ CanStart(t)
    /\ \E p \in PaymentIds \cup {"unknown"}, caller \in AgentIds :
        LET tk == [IdleTask EXCEPT !.op = "cancel", !.pid = p,
                                   !.lookup = Lookup(p, caller)] IN
        task' = [task EXCEPT ![t] =
            IF NotFound(p, caller) THEN Finish(tk, "notFound")
            ELSE IF ~CanCancel(payments[p].status) THEN Finish(tk, "cannotCancel")
            ELSE [tk EXCEPT !.pc = "cancel_gw"]]
    /\ UNCHANGED <<payments, agents, settleCalls, deposits>>
    /\ UNCHANGED <<reqVars, encVars, tokVars, gatewayResults, sasAccounts, createAnswer>>

\* cancelPayment: the gateway answers, then status cancelled is written
cancelPaymentUpdate(t) ==
    /\ task[t].pc = "cancel_gw"
    /\ \E gatewayOk \in BOOLEAN :
        IF gatewayOk
          THEN /\ payments' = [payments EXCEPT ![task[t].pid] =
                     [@ EXCEPT !.status = "cancelled", !.processedAt = TRUE]]
               /\ task' = [task EXCEPT ![t] =
                    Finish([@ EXCEPT !.gateway = "cancel"], "ok")]
          ELSE /\ payments' = payments
               /\ task' = [task EXCEPT ![t] =
                    Finish([@ EXCEPT !.gateway = "cancel"], "cancelFailed")]
    /\ UNCHANGED <<agents, settleCalls, deposits>>
    /\ UNCHANGED <<reqVars, encVars, tokVars, gatewayResults, sasAccounts, createAnswer>>

\* refundPayment up to the gateway call
refundPayment(t) ==
    /\ CanStart(t)
    /\ \E p \in PaymentIds \cup {"unknown"}, caller \in AgentIds :
        LET tk == [IdleTask EXCEPT !.op = "refund", !.pid = p,
                                   !.lookup = Lookup(p, caller)] IN
        task' = [task EXCEPT ![t] =
            IF NotFound(p, caller) THEN Finish(tk, "notFound")
            ELSE IF ~CanRefund(payments[p].status) THEN Finish(tk, "cannotRefund")
            ELSE [tk EXCEPT !.pc = "refund_gw"]]
    /\ UNCHANGED <<payments, agents, settleCalls, deposits>>
    /\ UNCHANGED <<reqVars, encVars, tokVars, gatewayResults, sasAccounts, createAnswer>>

\* refundPayment: the gateway answers, then status refunded is written
refundPaymentUpdate(t) ==
    /\ task[t].pc = "refund_gw"
    /\ \E gatewayOk \in BOOLEAN :
        IF gatewayOk
          THEN /\ payments' = [payments EXCEPT ![task[t].pid] =
                     [@ EXCEPT !.status = "refunded", !.processedAt = TRUE,
                               !.paymentDetails = "refund"]]
               /\ task' = [task EXCEPT ![t] =
                    Finish([@ EXCEPT !.gateway = "refund"], "ok")]
          ELSE /\ payments' = payments
               /\ task' = [task EXCEPT ![t] =
                    Finish([@ EXCEPT !.gateway = "refund"], "refundFailed")]
    /\ UNCHANGED <<agents, settleCalls, deposits>>
    /\ UNCHANGED <<reqVars, encVars, tokVars, gatewayResults, sasAccounts, createAnswer>>

---------------------------------------------------------------------------
(* EncryptionService                                                       *)

\* UTF-16 code units a string is made of: an ASCII letter (U+0061), a
\* letter of two UTF-8 bytes (U+00E9), and the two halves of the surrogate
\* pair of U+1F600
CodeUnits == {"0061", "00E9", "D83D", "DE00"}

\* values of sas.encryptionKey explored
Keys == {3, 200}

\* the random salt CryptoJS draws for one passphrase encryption
Salts == {5, 77}

Strings(n) == UNION {[1..k -> CodeUnits] : k \in 0..n}

\* every high surrogate is followed by a low one, every low one preceded
\* by a high one (encodeURIComponent throws URIError otherwise)
WellFormed(s) ==
    \A i \in 1..Len(s) :
        /\ s[i] = "D83D" => (IF i < Len(s) THEN s[i + 1] = "DE00" ELSE FALSE)
        /\ s[i] = "DE00" => (IF i > 1 THEN s[i - 1] = "D83D" ELSE FALSE)

\* CryptoJS.enc.Utf8.parse: the UTF-8 bytes of a well-formed string
RECURSIVE Utf8Parse(_)
Utf8Parse(s) ==
    IF s = <<>> THEN <<>>
    ELSE IF Head(s) = "0061" THEN <<97>> \o Utf8Parse(Tail(s))
    ELSE IF Head(s) = "00E9" THEN <<195, 169>> \o Utf8Parse(Tail(s))
    ELSE <<240, 159, 152, 128>> \o Utf8Parse(Tail(Tail(s)))

Malformed == [ok |-> FALSE, text |-> <<>>]

\* CryptoJS.enc.Utf8.stringify: the string of a byte sequence, or the
\* 'Malformed UTF-8 data' error
RECURSIVE Utf8Stringify(_)
Utf8Stringify(bytes) ==
    IF bytes = <<>> THEN [ok |-> TRUE, text |-> <<>>]
    ELSE LET n == Len(bytes)
             one == bytes[1] = 97
             two == IF n >= 2 THEN bytes[1] = 195 /\ bytes[2] = 169 ELSE FALSE
             four == IF n >= 4
                       THEN <<bytes[1], bytes[2], bytes[3], bytes[4]>> =
                              <<240, 159, 152, 128>>
                       ELSE FALSE
             units == IF one THEN <<"0061">>
                      ELSE IF two THEN <<"00E9">> ELSE <<"D83D", "DE00">>
             used == IF one THEN 1 ELSE IF two THEN 2 ELSE 4
         IN  IF ~(one \/ two \/ four) THEN Malformed
             ELSE LET rest == Utf8Stringify(SubSeq(bytes, used + 1, n)) IN
                  IF rest.ok THEN [ok |-> TRUE, text |-> units \o rest.text]
                  ELSE Malformed

\* CryptoJS.AES.encrypt(message, passphrase).toString(): the salt, then
\* the bytes of the message under the cipher keyed by passphrase and salt
AesEncrypt(bytes, key, salt) ==
    <<salt>> \o [i \in 1..Len(bytes) |-> (bytes[i] + key + salt) % 256]

\* CryptoJS.AES.decrypt(cipherText, passphrase): the salt is read from the
\* cipher text and the cipher is inverted
AesDecrypt_NoSalt(cipher, key) ==
    [i \in 1..(Len(cipher) - 1) |-> (cipher[i + 1] + 256 - key) % 256]
AesDecrypt(cipher, key) ==
    LET salt == Head(cipher)
        body == Tail(cipher)
    IN  [i \in 1..Len(body) |-> (body[i] + 512 - key - salt) % 256]

Returned(text) == [error |-> "none", text |-> text]
Thrown(message) == [error |-> message, text |-> <<>>]

\* EncryptionService.encrypt
encrypt(text, key, salt) ==
    IF text = <<>> THEN Returned(<<>>)
    ELSE IF ~WellFormed(text) THEN Thrown("Encryption failed")
    ELSE Returned(AesEncrypt(Utf8Parse(text), key, salt))

\* EncryptionService.decrypt
decrypt(cipher, key) ==
    IF cipher = <<>> THEN Returned(<<>>)
    ELSE LET str == Utf8Stringify(AesDecrypt(cipher, key)) IN
         IF ~str.ok \/ str.text = <<>> THEN Thrown("Decryption failed")
         ELSE Returned(str.text)

\* encrypt is applied to the string
Encrypt ==
    /\ encPc = "start"
    /\ \E salt \in Salts :
        cipherText' = encrypt(plainText, encryptionKey, salt)
    /\ encPc' = "encrypted"
    /\ UNCHANGED <<encryptionKey, plainText, decrypted>>
    /\ UNCHANGED <<reqVars, payVars, tokVars>>

\* decrypt is applied to what encrypt returned
Decrypt ==
    /\ encPc = "encrypted"
    /\ cipherText.error = "none"
    /\ decrypted' = decrypt(cipherText.text, encryptionKey)
    /\ encPc' = "decrypted"
    /\ UNCHANGED <<encryptionKey, plainText, cipherText>>
    /\ UNCHANGED <<reqVars, payVars, tokVars>>

\* the request and payment state at rest
IdleReq ==
    /\ maxRetries = 3
    /\ retryDelay = 1000
    /\ attempt = 0
    /\ lastError = NoError
    /\ rpc = "loop"
    /\ inFlight = 0
    /\ outcomes = <<>>
    /\ auditLog = <<>>
    /\ auditLost = 0
    /\ delays = <<>>
    /\ result = "none"

InitEnc ==
    /\ encryptionKey \in Keys
    /\ plainText \in Strings(MaxLen)
    /\ cipherText = NotYet
    /\ decrypted = NotYet
    /\ encPc = "start"
    /\ IdleReq
    /\ InitPay
    /\ IdleTok

NextEnc == Encrypt \/ Decrypt

SpecEnc == InitEnc /\ [][NextEnc]_vars

---------------------------------------------------------------------------
(* SasTokenService.getSasToken, called by AgentsService.getAgentInfo       *)

\* the lease getSasToken gives a new token: setHours(getHours() + 1)
LeaseHours == 1

\* the n-th token the remote ledger issues
TokenOf(n) == [i \in 1..n |-> "0061"]

\* getSasToken: the agent record holds a token whose expiry is later than now
CachedTokenValid_Always(agent, time) == agent.encryptedSasToken # <<>>
CachedTokenValid(agent, time) ==
    /\ agent.encryptedSasToken # <<>>
    /\ agent.sasTokenExpiresAt # 0
    /\ agent.sasTokenExpiresAt > time

\* an operation takes the next free slot
CallCanStart(c) ==
    /\ call[c].pc = "idle"
    /\ IF c = 1 THEN TRUE ELSE call[c - 1].pc # "idle"

\* getAgentInfo up to the first remote call: the agent is loaded; getSasToken
\* returns the decrypted cached token, or dispatches the remote login
getAgentInfo(c) ==
    /\ CallCanStart(c)
    /\ \E a \in AgentIds, found \in BOOLEAN :
        LET row == agentRows[a]
            valid == CachedTokenValid(row, now)
            plain == decrypt(row.encryptedSasToken, encryptionKey)
            cl == [IdleCall EXCEPT !.agent = a, !.cacheValid = valid,
                                   !.rejectedAtStart = rejected[a]]
        IN  IF ~found
              THEN /\ call' = [call EXCEPT ![c] =
                        [IdleCall EXCEPT !.pc = "done", !.result = "notFound"]]
                   /\ UNCHANGED loginsInFlight
            ELSE IF valid
              THEN /\ call' = [call EXCEPT ![c] =
                        IF plain.error = "none"
                          THEN [cl EXCEPT !.pc = "info", !.token = plain.text,
                                          !.source = "cache"]
                          ELSE [cl EXCEPT !.pc = "done",
                                          !.result = "unauthorized"]]
                   /\ UNCHANGED loginsInFlight
            ELSE /\ call' = [call EXCEPT ![c] =
                        [cl EXCEPT !.pc = "login", !.logins = 1]]
                 /\ loginsInFlight' = [loginsInFlight EXCEPT ![a] = @ + 1]
    /\ UNCHANGED <<now, agentRows, issued, rejected, encryptionKey, plainText,
                   cipherText, decrypted, encPc>>
    /\ UNCHANGED <<reqVars, payVars>>

\* the agent's row after getSasToken's login: prisma.agent.update runs only
\* after login has returned a token; a login that throws leaves the row
RowAfterLogin_Cleared(row, loginOk, encryptedSasToken, sasTokenExpiresAt) ==
    IF loginOk
      THEN [encryptedSasToken |-> encryptedSasToken,
            sasTokenExpiresAt |-> sasTokenExpiresAt]
      ELSE NoToken
RowAfterLogin(row, loginOk, encryptedSasToken, sasTokenExpiresAt) ==
    IF loginOk
      THEN [encryptedSasToken |-> encryptedSasToken,
            sasTokenExpiresAt |-> sasTokenExpiresAt]
      ELSE row

\* getSasToken: the remote login answers; the new token is encrypted and
\* stored with its expiry, and returned; a failed login is thrown on
GetSasTokenLogin(c) ==
    /\ call[c].pc = "login"
    /\ LET a == call[c].agent IN
       /\ loginsInFlight' = [loginsInFlight EXCEPT ![a] = @ - 1]
       /\ \E loginOk \in BOOLEAN, salt \in Salts :
           IF loginOk
             THEN LET newToken == TokenOf(issued + 1)
                      encrypted == encrypt(newToken, encryptionKey, salt)
                  IN  /\ issued' = issued + 1
                      /\ agentRows' = [agentRows EXCEPT ![a] =
                            RowAfterLogin(@, TRUE, encrypted.text,
                                          now + LeaseHours)]
                      /\ call' = [call EXCEPT ![c] =
                            [@ EXCEPT !.pc = "info", !.token = newToken,
                                      !.source = "login"]]
             ELSE /\ call' = [call EXCEPT ![c] =
                        [@ EXCEPT !.pc = "done", !.result = "unauthorized"]]
                  /\ agentRows' = [agentRows EXCEPT ![a] =
                        RowAfterLogin(@, FALSE, <<>>, 0)]
                  /\ UNCHANGED issued
    /\ UNCHANGED <<now, rejected, encVars>>
    /\ UNCHANGED <<reqVars, payVars>>

\* the token is the one the agent's row holds
IsCachedToken(a, token) ==
    decrypt(agentRows[a].encryptedSasToken, encryptionKey) = Returned(token)

\* getAgentInfo: getUserInfo, a request() call made with the token, ends
\* with the response or with the 401 or 503 error
GetUserInfo(c) ==
    /\ call[c].pc = "info"
    /\ \E answer \in {"response", "err401", "err503"} :
        /\ call' = [call EXCEPT ![c] =
              [@ EXCEPT !.pc = "done",
                        !.result = IF answer = "response" THEN "ok"
                                   ELSE "unauthorized"]]
        /\ rejected' = IF answer = "err401" /\ IsCachedToken(call[c].agent, call[c].token)
              THEN [rejected EXCEPT ![call[c].agent] = @ \cup {call[c].token}]
              ELSE rejected
    /\ UNCHANGED <<now, agentRows, loginsInFlight, issued, encVars>>
    /\ UNCHANGED <<reqVars, payVars>>

\* an hour passes
Tick ==
    /\ now < MaxTime
    /\ now' = now + 1
    /\ UNCHANGED <<agentRows, call, loginsInFlight, issued, rejected, encVars>>
    /\ UNCHANGED <<reqVars, payVars>>

InitTok ==
    /\ IdleTok
    /\ encryptionKey \in Keys
    /\ plainText = <<>>
    /\ cipherText = NotYet
    /\ decrypted = NotYet
    /\ encPc = "idle"
    /\ IdleReq
    /\ InitPay

NextTok ==
    \/ Tick
    \/ \E c \in 1..MaxCallers :
        \/ getAgentInfo(c)
        \/ GetSasTokenLogin(c)
        \/ GetUserInfo(c)

SpecTok == InitTok /\ [][NextTok]_vars

---------------------------------------------------------------------------
(* The payment settlement state machine                                    *)

Init ==
    /\ InitPay
    /\ IdleReq
    /\ IdleEnc
    /\ IdleTok

Next ==
    \/ createPayment
    \/ \E t \in 1..MaxTasks :
        \/ handleNotification(t)
        \/ handleCallback(t)
        \/ CallbackStatus(t)
        \/ ProcessWebhookUpdate(t)
        \/ CompleteTopUpPre(t)
        \/ CompleteTopUpDeposit(t)
        \/ CompleteTopUpPost(t)
        \/ MarkTopUp(t)
        \/ getPaymentById(t)
        \/ checkPaymentStatus(t)
        \/ checkPaymentStatusUpdate(t)
        \/ cancelPayment(t)
        \/ cancelPaymentUpdate(t)
        \/ refundPayment(t)
        \/ refundPaymentUpdate(t)

Spec == Init /\ [][Next]_vars

---------------------------------------------------------------------------
(* Settlement next to agent logins: top-ups started by topUpWallet, webhook *)
(* notifications, AuthService.agentLogin, and a remote ledger on which an   *)
(* agent's account can be created anew under another numeric id            *)

\* AgentsService.topUpWallet: the agent is looked up, a transaction id is
\* generated and handed to createPayment in the metadata of a top-up payment
topUpWallet ==
    \E p \in PaymentIds, agentId \in AgentIds, amount \in Amounts,
       agentFound \in BOOLEAN, paymentMethod \in PaymentMethods,
       answer \in GatewayCreateAnswers :
        /\ ~payments[p].exists
        /\ IF agentFound
             THEN PaymentServiceCreatePayment(p, agentId, "agent_top_up",
                      amount, paymentMethod, answer,
                      [NoMetadata EXCEPT !.transactionId = Id("uuid", p)])
             ELSE UNCHANGED <<payments, createAnswer>>
        /\ UNCHANGED <<agents, task, settleCalls, deposits>>
        /\ UNCHANGED <<reqVars, encVars, tokVars, gatewayResults, sasAccounts>>

\* AuthService.agentLogin: remote login, getUserInfo, then the agent's row
\* is written with the token and with sasManagerId = agentInfo.client?.id
\* (an undefined id leaves the stored one); a failed login or getUserInfo
\* ends the request before the write
agentLogin(t) ==
    /\ CanStart(t)
    /\ \E a \in AgentIds, answer \in {"loginFails", "infoFails", "noId", "ok"} :
        LET failed == answer \in {"loginFails", "infoFails"} IN
        /\ agents' = [agents EXCEPT ![a] =
              CASE failed -> @
                [] answer = "noId" -> [@ EXCEPT !.tokenValid = TRUE]
                [] answer = "ok" -> [tokenValid |-> TRUE,
                                     sasManagerId |-> sasAccounts[a]]]
        /\ task' = [task EXCEPT ![t] =
              Finish([IdleTask EXCEPT !.op = "agentLogin"],
                     IF failed THEN "unauthorized" ELSE "ok")]
    /\ UNCHANGED <<payments, settleCalls, deposits>>
    /\ UNCHANGED <<reqVars, encVars, tokVars, gatewayResults, sasAccounts, createAnswer>>

\* the id the remote ledger gives an agent's account created anew
RecreatedId(agentId) == RemoteId(agentId) + 10

\* the remote ledger: an agent's account is deleted and created again
sasAccountRecreated(a) ==
    /\ sasAccounts[a] = RemoteId(a)
    /\ sasAccounts' = [sasAccounts EXCEPT ![a] = RecreatedId(a)]
    /\ UNCHANGED <<payments, agents, task, settleCalls, deposits>>
    /\ UNCHANGED <<reqVars, encVars, tokVars, gatewayResults, createAnswer>>

InitSettle ==
    /\ InitPay
    /\ IdleReq
    /\ IdleEnc
    /\ IdleTok

NextSettle ==
    \/ createPayment
    \/ topUpWallet
    \/ \E a \in AgentIds : sasAccountRecreated(a)
    \/ \E t \in 1..MaxTasks :
        \/ agentLogin(t)
        \/ handleNotification(t)
        \/ ProcessWebhookUpdate(t)
        \/ CompleteTopUpPre(t)
        \/ CompleteTopUpDeposit(t)
        \/ CompleteTopUpPost(t)
        \/ MarkTopUp(t)

SpecSettle == InitSettle /\ [][NextSettle]_vars

---------------------------------------------------------------------------
(* Properties                                                              *)

Tasks == 1..MaxTasks

TopUp(p) == payments[p].serviceType = "agent_top_up"

\* task t takes the step that ends refundPayment with the refund written
RefundWrites(t) ==
    /\ task[t].pc = "refund_gw"
    /\ task'[t].pc = "done"
    /\ task'[t].response = "ok"

\* C1: a stored status of failed, cancelled or refunded never changes, and
\* a stored status of completed changes only to refunded, written by
\* refundPayment.
C1_TerminalStatusIsFinal ==
    [][\A p \in PaymentIds :
        /\ payments[p].status \in {"failed", "cancelled", "refunded"}
             => payments'[p].status = payments[p].status
        /\ payments[p].status = "completed"
             => \/ payments'[p].status = "completed"
                \/ /\ payments'[p].status = "refunded"
                   /\ \E t \in Tasks : RefundWrites(t)]_vars

\* C2: completeTopUp is invoked at most once for a payment, and at most
\* one deposit call is issued for it.
C2_SettlementAtMostOnce ==
    \A p \in PaymentIds :
        /\ settleCalls[p] <= 1
        /\ Cardinality({d \in deposits : d.payment = p}) <= 1

\* C3: a notification whose token is wrong, or whose signature is missing
\* or fails verification, is answered with the rejection at once, and its
\* handler changes no payment record, invokes no settlement and issues no
\* deposit.
C3_UnverifiedNotificationChangesNothing ==
    [][\A t \in Tasks :
        (task'[t].op = "notification" /\ ~task'[t].verified)
          => /\ task'[t].pc = "done"
             /\ task'[t].response = "badRequest"
             /\ task'[t].settle = "none"
             /\ task'[t] # task[t]
                  => UNCHANGED <<payments, agents, settleCalls, deposits>>]_vars

\* a rejected notification for an existing pending payment
C3_Witness ==
    \E t \in Tasks :
        /\ task[t].op = "notification"
        /\ ~task[t].verified
        /\ task[t].response = "badRequest"
        /\ task[t].pid = "P1"
        /\ payments["P1"].status = "pending"

\* C4 as stated: every handler that changes a top-up payment from pending
\* to completed (webhook, callback or status poll) invokes completeTopUp.
C4_EveryCompletionSettles ==
    \A t \in Tasks :
        (task[t].madeCompleted /\ TopUp(task[t].pid)) => task[t].settle # "none"

\* C4 amended: a change from pending to completed made by processWebhook
\* (verified notification or callback return) invokes completeTopUp; a
\* status poll never does.
C4_WebhookCompletionSettles ==
    \A t \in Tasks :
        /\ (/\ task[t].op \in {"notification", "callback"}
            /\ task[t].madeCompleted
            /\ TopUp(task[t].pid)) => task[t].settle # "none"
        /\ task[t].op = "poll" => task[t].settle = "none"

\* the callback return completed a pending top-up payment and settled it
C4_Witness ==
    \E t \in Tasks :
        /\ task[t].op = "callback"
        /\ task[t].pc = "done"
        /\ task[t].madeCompleted
        /\ TopUp(task[t].pid)
        /\ task[t].settle = "ok"

\* C5: a failed settlement leaves the stored status as it is (completed
\* stays completed) and sets topUpError in the metadata; no step of the
\* settlement itself writes the payment record.
C5_FailedSettlementKeepsStatus ==
    [][\A t \in Tasks :
        /\ (task[t].pc \in {"ctu_pre", "ctu_deposit", "ctu_post"}
              /\ task'[t] # task[t]) => payments' = payments
        /\ (task[t].pc = "psp_mark" /\ task[t].settle = "failed"
              /\ task'[t] # task[t])
             => LET p == task[t].pid IN
                /\ payments'[p].status = payments[p].status
                /\ payments'[p].metadata.topUpError]_vars

\* a settlement failed at the deposit or after it, the payment is still
\* completed and carries topUpError
C5_Witness ==
    \E t \in Tasks :
        /\ task[t].pc = "done"
        /\ task[t].settle = "failed"
        /\ \E d \in deposits : d.task = t
        /\ payments[task[t].pid].status = "completed"
        /\ payments[task[t].pid].metadata.topUpError

\* the handler is the only one that has been started
Alone(t) == \A u \in Tasks \ {t} : task[u].op = "idle"

\* C6: a verified SUCCESS notification for a pending top-up payment whose
\* remote calls all succeed issues exactly one deposit, of the payment's
\* amount to the owner's remote account; run on its own it ends with the
\* record completed, topUpCompleted set and one settlement for the payment.
C6_SuccessfulWebhookSettlesOnce ==
    \A t \in Tasks :
        (/\ task[t].op = "notification"
         /\ task[t].pc = "done"
         /\ task[t].madeCompleted
         /\ task[t].settle = "ok")
          => LET p == task[t].pid IN
             /\ {[task |-> d.task, payment |-> d.payment, amount |-> d.amount,
                   manager_id |-> d.manager_id] : d \in {e \in deposits : e.task = t}} =
                  {[task |-> t, payment |-> p, amount |-> payments[p].amount,
                    manager_id |-> RemoteId(payments[p].agentId)]}
             /\ Alone(t) =>
                  /\ payments[p].status = "completed"
                  /\ payments[p].metadata.topUpCompleted
                  /\ ~payments[p].metadata.topUpError
                  /\ settleCalls[p] = 1
                  /\ Cardinality(deposits) = 1

\* the scenario of the specification: amount 10000, webhook SUCCESS
C6_Witness ==
    \E t \in Tasks :
        /\ task[t].op = "notification"
        /\ task[t].pc = "done"
        /\ task[t].verified
        /\ task[t].madeCompleted
        /\ task[t].settle = "ok"
        /\ Alone(t)
        /\ payments[task[t].pid].amount = 10000

\* C7: a notification whose settlement failed is not answered with success.
C7_SettlementErrorReachesCaller ==
    \A t \in Tasks :
        (/\ task[t].op = "notification"
         /\ task[t].pc = "done"
         /\ task[t].settle = "failed") => task[t].response # "ok"

---------------------------------------------------------------------------
(* Properties of SasClientService.request                                  *)

Last(seq) == seq[Len(seq)]

\* C8: a 401 answer is the last answer of the call: the call has ended with
\* the 401 error, no attempt followed it and no delay was waited after it.
C8_AuthErrorEndsCall ==
    \A k \in 1..Len(outcomes) :
        outcomes[k] = "http401"
          => /\ k = Len(outcomes)
             /\ rpc = "done"
             /\ result = "err401"
             /\ attempt = k
             /\ inFlight = 0
             /\ Len(delays) = k - 1

\* a 401 on the second of three attempts
C8_Witness ==
    /\ maxRetries = 3
    /\ outcomes = <<"timeout", "http401">>
    /\ result = "err401"

\* at most maxRetries attempts; a failure other than 401 ends the call only
\* when no attempt remains; a success ends the call with the response
C9_Retries ==
    /\ attempt <= maxRetries
    /\ Len(outcomes) <= attempt
    /\ (rpc = "done" /\ outcomes # <<>> /\ Last(outcomes) \notin {"ok", "http401"})
          => Len(outcomes) = maxRetries
    /\ \A k \in 1..Len(outcomes) :
          outcomes[k] = "ok"
            => k = Len(outcomes) /\ rpc = "done" /\ result = "response"

AllFailed == \A k \in 1..Len(outcomes) : outcomes[k] # "ok"

\* C9 as stated: ... and when all maxRetries attempts have failed the call
\* ends with the 503 error, never with the 401 error.
C9_ExhaustionIsAlways503 ==
    /\ C9_Retries
    /\ (rpc = "done" /\ maxRetries >= 1 /\ Len(outcomes) = maxRetries /\ AllFailed)
          => result = "err503"

\* C9 amended: ... and when all maxRetries attempts have failed, the last
\* of them not with a 401, the call ends with the 503 error; with a 401 on
\* the last attempt it ends with the 401 error.
C9_ExhaustionIs503UnlessLast401 ==
    /\ C9_Retries
    /\ (rpc = "done" /\ maxRetries >= 1 /\ Len(outcomes) = maxRetries /\ AllFailed)
          => result = IF Last(outcomes) = "http401" THEN "err401" ELSE "err503"

\* three failed attempts of three, none a 401
C9_Witness ==
    /\ maxRetries = 3
    /\ outcomes = <<"timeout", "http500", "network">>
    /\ rpc = "done"
    /\ result = "err503"

\* C10: the i-th delay of a call is retryDelay * i and is waited after the
\* i-th failed attempt, before attempt i+1; nothing is waited after the
\* last attempt; two timeouts and a success give the delays retryDelay and
\* 2 * retryDelay.
C10_LinearRetryDelay ==
    /\ \A i \in 1..Len(delays) : delays[i] = retryDelay * i
    /\ rpc = "awaiting" => Len(delays) = attempt - 1
    /\ rpc = "delay" => Len(delays) = attempt - 1 /\ attempt < maxRetries
    /\ rpc = "loop" => Len(delays) = IF attempt < maxRetries THEN attempt
                                     ELSE IF attempt = 0 THEN 0 ELSE attempt - 1
    /\ rpc = "done" => Len(delays) = IF attempt = 0 THEN 0 ELSE attempt - 1
    /\ (maxRetries = 3 /\ outcomes = <<"timeout", "timeout", "ok">>)
          => delays = <<retryDelay, 2 * retryDelay>>

\* two timeouts, then a success, with maxRetries = 3
C10_Witness ==
    /\ maxRetries = 3
    /\ outcomes = <<"timeout", "timeout", "ok">>
    /\ rpc = "done"

\* C11 as stated: a call that has ended wrote as many audit records as it
\* dispatched attempts (3 for two timeouts and a success, 1 for a 401 on
\* attempt 1).
C11_OneAuditRecordPerAttempt ==
    rpc = "done" => Len(auditLog) = attempt

\* C11 amended: every attempt makes two audit writes, SAS_REQUEST before the
\* dispatch and SAS_RESPONSE_SUCCESS or SAS_RESPONSE_FAILED after the
\* answer, so a call whose audit writes are all stored wrote twice as many
\* records as it dispatched attempts: 6 for two timeouts and a success with
\* maxRetries = 3, and 2 for a 401 on attempt 1; a failed audit write
\* loses its record and nothing else.
C11_TwoAuditRecordsPerAttempt ==
    /\ Len(auditLog) + auditLost = attempt + Len(outcomes)
    /\ (rpc = "done" /\ auditLost = 0) => Len(auditLog) = 2 * attempt
    /\ (maxRetries = 3 /\ outcomes = <<"timeout", "timeout", "ok">>
           /\ auditLost = 0)
          => auditLog = <<AuditRecord("SAS_REQUEST", 1),
                          AuditRecord("SAS_RESPONSE_FAILED", 1),
                          AuditRecord("SAS_REQUEST", 2),
                          AuditRecord("SAS_RESPONSE_FAILED", 2),
                          AuditRecord("SAS_REQUEST", 3),
                          AuditRecord("SAS_RESPONSE_SUCCESS", 3)>>
    /\ (outcomes = <<"http401">> /\ auditLost = 0)
          => auditLog = <<AuditRecord("SAS_REQUEST", 1),
                          AuditRecord("SAS_RESPONSE_FAILED", 1)>>

\* two timeouts and a success with maxRetries = 3, every audit write stored
C11_Witness ==
    /\ maxRetries = 3
    /\ outcomes = <<"timeout", "timeout", "ok">>
    /\ rpc = "done"
    /\ auditLost = 0
    /\ Len(auditLog) = 6

---------------------------------------------------------------------------
(* Properties of SasTokenService.getSasToken                               *)

Callers == 1..MaxCallers

\* C12: getSasToken called with an agent record that holds a token whose
\* expiry is later than now dispatches no remote login and returns the
\* decrypted cached token; called with a record whose token is absent or
\* expired it dispatches exactly one remote login, and when that login
\* answers with a token it stores the encrypted token with expiry now + 1
\* hour and returns the plaintext token.
C12_TokenCacheContract ==
    [][\A c \in Callers :
        /\ (call[c].pc = "idle" /\ call'[c].pc # "idle"
              /\ call'[c].result # "notFound")
             => LET a == call'[c].agent
                    row == agentRows[a]
                IN  IF row.encryptedSasToken # <<>> /\ row.sasTokenExpiresAt > now
                      THEN /\ loginsInFlight' = loginsInFlight
                           /\ call'[c].logins = 0
                           /\ call'[c].pc = "info" =>
                                decrypt(row.encryptedSasToken, encryptionKey)
                                  = Returned(call'[c].token)
                      ELSE /\ loginsInFlight'[a] = loginsInFlight[a] + 1
                           /\ call'[c].logins = 1
                           /\ call'[c].pc = "login"
        /\ (call[c].pc = "login" /\ call'[c].pc = "info")
             => LET a == call[c].agent IN
                /\ call'[c].token = TokenOf(issued')
                /\ issued' = issued + 1
                /\ agentRows'[a].sasTokenExpiresAt = now + 1
                /\ decrypt(agentRows'[a].encryptedSasToken, encryptionKey)
                     = Returned(call'[c].token)
        /\ call[c].pc # "idle" => call'[c].logins = call[c].logins
        /\ agentRows' # agentRows
             => \E d \in Callers : call[d].pc = "login" /\ call'[d].pc = "info"
       ]_vars

\* the second operation for an agent found the token the first one had
\* stored, within its lease, and used it without a login
C12_Witness ==
    /\ call[1].source = "login"
    /\ call[2].source = "cache"
    /\ call[2].agent = call[1].agent
    /\ call[2].token = call[1].token
    /\ call[2].logins = 0
    /\ issued = 1

\* C13: at every moment at most one remote login started by getSasToken is
\* in flight per agent.
C13_SingleLoginInFlight ==
    \A a \in AgentIds : loginsInFlight[a] <= 1

\* C14: an operation that starts after a request made with the agent's
\* cached token ended with the 401 error does not take that same token
\* from the cache.
C14_NoReuseAfterAuthError ==
    \A c \in Callers :
        call[c].source = "cache" => call[c].token \notin call[c].rejectedAtStart

---------------------------------------------------------------------------
(* Properties of the agent-facing payment operations                       *)

\* task t starts operation op in this step
Starts(t, op) == task[t].op = "idle" /\ task'[t].op = op

\* C15: cancelPayment called by the owner on a payment whose stored status
\* is completed, failed, cancelled or refunded ends at once with the
\* cannot-cancel error, sends no request to the gateway and changes no
\* record.
C15_CancelRejectedUnlessPending ==
    [][\A t \in Tasks :
        (/\ Starts(t, "cancel")
         /\ task'[t].lookup = "own"
         /\ payments[task'[t].pid].status \in TerminalStatuses)
          => /\ task'[t].pc = "done"
             /\ task'[t].response = "cannotCancel"
             /\ task'[t].gateway = "none"
             /\ UNCHANGED <<payments, agents, settleCalls, deposits>>]_vars

\* a cancel of a completed payment was rejected
C15_Witness ==
    \E t \in Tasks :
        /\ task[t].op = "cancel"
        /\ task[t].response = "cannotCancel"
        /\ task[t].gateway = "none"
        /\ payments[task[t].pid].status = "completed"

\* C16: refundPayment called by the owner on a payment whose stored status
\* is pending, failed, cancelled or refunded ends at once with the
\* cannot-refund error, sends no request to the gateway and changes no
\* record; and a payment's status becomes refunded only from completed.
C16_RefundOnlyFromCompleted ==
    [][/\ \A t \in Tasks :
            (/\ Starts(t, "refund")
             /\ task'[t].lookup = "own"
             /\ payments[task'[t].pid].status # "completed")
              => /\ task'[t].pc = "done"
                 /\ task'[t].response = "cannotRefund"
                 /\ task'[t].gateway = "none"
                 /\ UNCHANGED <<payments, agents, settleCalls, deposits>>
       /\ \A p \in PaymentIds :
            (payments'[p].status = "refunded" /\ payments[p].status # "refunded")
              => payments[p].status = "completed"]_vars

FinalNative == {"SUCCESS", "FAILED", "CANCELLED", "REFUNDED"}

\* C18: a status poll of a pending payment changes the stored status only
\* when the provider reports a final status; with any other provider
\* status the stored status stays pending.
C18_PollKeepsPendingUntilFinal ==
    [][\A t \in Tasks :
        (/\ task[t].pc = "poll_gw"
         /\ task'[t].pc = "done"
         /\ payments[task[t].pid].status = "pending"
         /\ payments'[task[t].pid].status # "pending")
          => payments'[task[t].pid].paymentDetails \in FinalNative]_vars

\* task t takes the step that ends cancelPayment with cancelled written
CancelWrites(t) ==
    /\ task[t].pc = "cancel_gw"
    /\ task'[t].pc = "done"
    /\ task'[t].response = "ok"

\* C20: cancelPayment writes cancelled only over a stored status of
\* pending: when another handler has moved the payment to completed or
\* failed since cancelPayment's check, the status does not become cancelled.
C20_CancelNeverOverwrites ==
    [][\A t \in Tasks :
        CancelWrites(t) => payments[task[t].pid].status = "pending"]_vars

---------------------------------------------------------------------------
(* Properties of EncryptionService                                         *)

\* C19 as stated: decrypt(encrypt(s)) = s for every non-empty string s,
\* encrypt("") = "" and decrypt("") = "".
C19_RoundTripEveryString ==
    /\ (encPc \in {"encrypted", "decrypted"} /\ plainText # <<>>)
          => cipherText.error = "none"
    /\ (encPc = "decrypted" /\ plainText # <<>>)
          => decrypted = Returned(plainText)
    /\ (encPc \in {"encrypted", "decrypted"} /\ plainText = <<>>)
          => cipherText = Returned(<<>>)
    /\ (encPc = "decrypted" /\ plainText = <<>>) => decrypted = Returned(<<>>)

\* C19 amended: decrypt(encrypt(s)) = s for every non-empty well-formed
\* string s (no unpaired surrogate), whatever salt encrypt drew; encrypt
\* throws 'Encryption failed' for a string with an unpaired surrogate;
\* encrypt("") = "" and decrypt("") = "".
C19_RoundTripWellFormed ==
    /\ (encPc \in {"encrypted", "decrypted"} /\ plainText # <<>>)
          => IF WellFormed(plainText)
               THEN cipherText.error = "none" /\ cipherText.text # <<>>
               ELSE cipherText = Thrown("Encryption failed")
    /\ (encPc = "decrypted" /\ plainText # <<>>)
          => decrypted = Returned(plainText)
    /\ (encPc \in {"encrypted", "decrypted"} /\ plainText = <<>>)
          => cipherText = Returned(<<>>)
    /\ (encPc = "decrypted" /\ plainText = <<>>) => decrypted = Returned(<<>>)

\* a string of a two-byte letter and a surrogate pair made the round trip
C19_Witness ==
    /\ encPc = "decrypted"
    /\ plainText = <<"00E9", "D83D", "DE00">>
    /\ cipherText.error = "none"
    /\ decrypted = Returned(plainText)

---------------------------------------------------------------------------
(* Properties of the settlement's remote calls and metadata                *)

\* the deposit of task t's settlement was accepted by the remote ledger
DepositSucceeded(t) ==
    \E i \in 1..Len(task[t].calls) :
        task[t].calls[i].name = "deposit" /\ task[t].calls[i].ok

\* task t takes the metadata update that ends its settlement
MarksTopUp(t) == task[t].pc = "psp_mark" /\ task'[t].pc = "done"

\* C21: a settlement whose deposit succeeded on the remote ledger ends with
\* topUpCompleted set in the payment's metadata and adds no topUpError to
\* it, also when the token fetch or balance read after the deposit fails.
C21_AcceptedDepositMarksCompleted ==
    [][\A t \in Tasks :
        (MarksTopUp(t) /\ DepositSucceeded(t))
          => LET p == task[t].pid IN
             /\ payments'[p].metadata.topUpCompleted
             /\ payments'[p].metadata.topUpError
                  => payments[p].metadata.topUpError]_vars

\* task t takes processWebhook's updatePaymentStatus
WebhookWrites(t) == task[t].pc = "pw_update" /\ task'[t].pc # "pw_update"

\* task t takes checkPaymentStatus's updatePaymentStatus
PollWrites(t) ==
    /\ task[t].pc = "poll_gw"
    /\ task'[t].pc = "done"
    /\ payments'[task[t].pid] # payments[task[t].pid]

\* C22: every status written by processWebhook (for a notification or the
\* callback) and by checkPaymentStatus is completed or failed and is written
\* over a stored status of pending; a status poll never writes cancelled or
\* refunded.
C22_SystemWritesOnlyFinalOverPending ==
    [][\A t \in Tasks :
        (WebhookWrites(t) \/ PollWrites(t))
          => LET p == task[t].pid IN
             /\ payments'[p].status \in {"completed", "failed"}
             /\ payments[p].status = "pending"]_vars

\* task t's processWebhook returns without writing: the handler starts (or
\* the callback's status query answers) and ends with the record found
WebhookReturnsUnwritten(t) ==
    /\ task[t].pc \in {"idle", "cb_status"}
    /\ task'[t].pc = "done"
    /\ task'[t].op \in {"notification", "callback"}
    /\ task'[t].response = HandlerAnswer(task'[t].op)
    /\ task'[t].verified
    /\ Exists(task'[t].pid)

\* C23: processWebhook writes to a payment record only for a notification
\* whose mapped status is completed or failed; a notification mapped to
\* pending, cancelled or refunded leaves status, processedAt, payment
\* details and metadata unchanged and starts no settlement.
C23_OnlyFinalNotificationsWrite ==
    [][\A t \in Tasks :
        /\ WebhookWrites(t) => task[t].status \in {"completed", "failed"}
        /\ WebhookReturnsUnwritten(t)
             => /\ payments' = payments
                /\ settleCalls' = settleCalls
                /\ deposits' = deposits
                /\ task'[t].settle = "none"]_vars

\* a verified notification for a pending payment was acknowledged and the
\* record is as createPayment stored it
C23_Witness ==
    \E t \in Tasks :
        /\ task[t].op = "notification"
        /\ task[t].pc = "done"
        /\ task[t].verified
        /\ task[t].response = "ok"
        /\ Alone(t)
        /\ Exists(task[t].pid)
        /\ payments[task[t].pid].status = "pending"
        /\ payments[task[t].pid].paymentDetails = "created"
        /\ ~payments[task[t].pid].processedAt
        /\ settleCalls[task[t].pid] = 0

\* C24: no payment's metadata holds topUpCompleted and topUpError together,
\* whatever webhooks were delivered and however their settlements ended.
C24_CompletedExcludesError ==
    \A p \in PaymentIds :
        ~(payments[p].metadata.topUpCompleted /\ payments[p].metadata.topUpError)

\* the agent logins task t's completeTopUp has made so far
AgentLogins(t) ==
    Cardinality({i \in 1..Len(task[t].calls) :
                    task[t].calls[i].name = "agentLogin"})

\* C25: one completeTopUp logs in as the agent at most once: its second
\* getSasToken finds the token its first getSasToken stored.
C25_OneAgentLoginPerSettlement ==
    \A t \in Tasks : AgentLogins(t) <= 1

---------------------------------------------------------------------------
(* Further properties of the token service                                 *)

\* caller c's remote login fails
LoginFails(c) ==
    /\ call[c].pc = "login"
    /\ call'[c].pc = "done"
    /\ call'[c].result = "unauthorized"

\* C26: a failed remote login inside getSasToken leaves every agent's stored
\* encrypted token and expiry as they were and hands no token to the caller.
C26_FailedLoginKeepsRow ==
    [][\A c \in Callers :
        LoginFails(c)
          => /\ agentRows' = agentRows
             /\ issued' = issued
             /\ call'[c].token = <<>>
             /\ call'[c].source = "none"]_vars

\* a login failed for an agent whose row still holds the expired token an
\* earlier login stored
C26_Witness ==
    \E c \in Callers :
        /\ call[c].pc = "done"
        /\ call[c].logins = 1
        /\ call[c].result = "unauthorized"
        /\ call[c].token = <<>>
        /\ ~call[c].cacheValid
        /\ agentRows[call[c].agent].encryptedSasToken # <<>>
        /\ agentRows[call[c].agent].sasTokenExpiresAt <= now
        /\ \A d \in Callers \ {c} : call[d].pc = "done"

\* task t sends its deposit
SendsDeposit(t) == task[t].pc = "ctu_deposit" /\ task'[t].pc # "ctu_deposit"

\* position of the last call named `name` in a history, 0 when there is none
LastCall(calls, name) ==
    LET at == {i \in 1..Len(calls) : calls[i].name = name}
    IN  IF at = {} THEN 0 ELSE CHOOSE i \in at : \A j \in at : j <= i

\* C28: a settlement sends its deposit with the token of an administrator
\* login it made itself, after it has read the agent's balance with the
\* agent's own token; the deposit never carries the agent's token and the
\* token of the administrator login is not stored.
C28_DepositUsesFreshAdminToken ==
    [][\A t \in Tasks :
        SendsDeposit(t)
          => LET calls == task[t].calls
                 info  == LastCall(calls, "getUserInfo")
                 admin == LastCall(calls, "adminLogin")
             IN  /\ info > 0
                 /\ calls[info].token = "agent" /\ calls[info].ok
                 /\ admin > info
                 /\ calls[admin].ok /\ ~calls[admin].stored
                 /\ LastCall(calls, "deposit") = 0
                 /\ \E d \in deposits' :
                      /\ d.task = t
                      /\ d.token = "admin"
                      /\ deposits' = deposits \cup {d}
                 /\ agents' = agents]_vars

\* a settlement that found a cached agent token has had its deposit accepted
C28_Witness ==
    \E t \in Tasks :
        /\ task[t].pc = "ctu_post"
        /\ task[t].snapTokenValid
        /\ LastCall(task[t].calls, "agentLogin") = 0
        /\ DepositSucceeded(t)
        /\ \E d \in deposits : d.task = t /\ d.token = "admin"

---------------------------------------------------------------------------
(* Properties of the settlement next to agent logins                       *)

\* C27: every deposit carries the payment's referenceId as transaction_id.
C27_DepositCarriesReferenceId ==
    \A d \in deposits : d.transaction_id = payments[d.payment].referenceId

\* C27 amended: every deposit carries as transaction_id the transactionId
\* of the payment's metadata (the uuid topUpWallet generated) when the
\* metadata holds one, and otherwise the payment's transactionId (the
\* gateway's payment id); it never carries the payment's referenceId.
C27_DepositCarriesTransactionId ==
    \A d \in deposits :
        LET payment == payments[d.payment] IN
        /\ payment.metadata.transactionId # NoId
             => d.transaction_id = payment.metadata.transactionId
        /\ payment.metadata.transactionId = NoId
             => d.transaction_id = payment.transactionId
        /\ d.transaction_id # payment.referenceId

\* a deposit was sent for a payment topUpWallet created
C27_Witness ==
    \E d \in deposits :
        /\ payments[d.payment].metadata.transactionId = Id("uuid", d.payment)
        /\ d.transaction_id = Id("uuid", d.payment)

\* a deposit was sent for a top-up payment created without metadata
C27_WitnessFallback ==
    \E d \in deposits :
        /\ payments[d.payment].metadata.transactionId = NoId
        /\ d.transaction_id = Id("paymentId", d.payment)

ResolvesId(t) == task[t].pc = "ctu_pre" /\ task'[t].pc = "ctu_deposit"

---------------------------------------------------------------------------
(* Properties of the service type                                          *)

\* C30: a payment whose service type is not agent top-up is never settled:
\* completeTopUp is never invoked for it, no handler working on it is
\* inside completeTopUp, and no deposit is issued for it.
C30_OnlyTopUpsSettle ==
    /\ \A p \in PaymentIds :
         (Exists(p) /\ ~TopUp(p))
           => /\ settleCalls[p] = 0
              /\ \A d \in deposits : d.payment # p
              /\ ~payments[p].metadata.topUpCompleted
              /\ ~payments[p].metadata.topUpError
    /\ \A t \in Tasks :
         (task[t].pid \in PaymentIds /\ ~TopUp(task[t].pid))
           => /\ task[t].settle = "none"
              /\ task[t].pc \notin {"ctu_pre", "ctu_deposit", "ctu_post",
                                    "psp_mark"}

\* a verified SUCCESS notification has completed a user_activation payment
C30_Witness ==
    \E t \in Tasks :
        /\ task[t].op = "notification"
        /\ task[t].pc = "done"
        /\ task[t].verified
        /\ task[t].madeCompleted
        /\ task[t].response = "ok"
        /\ payments[task[t].pid].serviceType = "user_activation"
        /\ payments[task[t].pid].status = "completed"
        /\ deposits = {}

---------------------------------------------------------------------------
(* Properties of createPayment                                             *)

\* C31: a createPayment call stores a payment record only when the gateway
\* reported that it created the payment, and the stored record has status
\* pending; when the payment method is unsupported or the gateway reports
\* failure the call ends with no record stored.
C31_RecordOnlyAfterGatewaySuccess ==
    [][/\ \A p \in PaymentIds :
            (~payments[p].exists /\ payments'[p].exists)
              => /\ payments'[p].status = "pending"
                 /\ ~payments'[p].processedAt
                 /\ createAnswer' = "created"
       /\ (createAnswer' # createAnswer
             /\ createAnswer' \in {"createFailed", "unsupportedMethod"})
            => payments' = payments
       /\ createAnswer' \in {"createFailed", "unsupportedMethod"}
            => \A p \in PaymentIds : ~payments'[p].exists]_vars

\* a createPayment call was refused for its payment method and no record
\* exists
C31_Witness ==
    /\ createAnswer = "unsupportedMethod"
    /\ \A p \in PaymentIds : ~payments[p].exists

\* a createPayment call ended with the gateway's failure and no record exists
C31_WitnessGatewayFailure ==
    /\ createAnswer = "createFailed"
    /\ \A p \in PaymentIds : ~payments[p].exists

---------------------------------------------------------------------------
(* Further properties of SasClientService.request                          *)

\* the step makes exactly one audit write, of `record`: the record is
\* appended to the trail, or its insert failed and was swallowed
WritesAudit(record) ==
    \/ auditLog' = Append(auditLog, record) /\ auditLost' = auditLost
    \/ auditLog' = auditLog /\ auditLost' = auditLost + 1

\* the audit trail of a call whose attempts ended with `answers`, with one
\* more attempt dispatched when `pending`
AuditTrail(answers, pending) ==
    LET n == Len(answers)
        full == [i \in 1..(2 * n) |->
                    IF i % 2 = 1
                      THEN AuditRecord("SAS_REQUEST", (i + 1) \div 2)
                      ELSE AuditRecord(IF answers[i \div 2] = "ok"
                                         THEN "SAS_RESPONSE_SUCCESS"
                                         ELSE "SAS_RESPONSE_FAILED", i \div 2)]
    IN  IF pending THEN Append(full, AuditRecord("SAS_REQUEST", n + 1)) ELSE full

\* C32: every attempt makes one audit write of SAS_REQUEST with its dispatch
\* and one of SAS_RESPONSE_SUCCESS or SAS_RESPONSE_FAILED for its answer, and
\* no other step writes; while no audit insert has failed the trail is
\* request, outcome, request, outcome, ... in the order of the attempts.
C32_AuditBeforeAndAfterEachAttempt ==
    [][/\ attempt' # attempt
            => /\ attempt' = attempt + 1
               /\ inFlight' = inFlight + 1
               /\ WritesAudit(AuditRecord("SAS_REQUEST", attempt'))
       /\ outcomes' # outcomes
            => /\ Len(outcomes') = attempt
               /\ inFlight' = inFlight - 1
               /\ WritesAudit(AuditRecord(
                     IF Last(outcomes') = "ok" THEN "SAS_RESPONSE_SUCCESS"
                     ELSE "SAS_RESPONSE_FAILED", attempt))
       /\ (attempt' = attempt /\ outcomes' = outcomes)
            => auditLog' = auditLog /\ auditLost' = auditLost
       /\ auditLost' = 0
            => auditLog' = AuditTrail(outcomes', attempt' > Len(outcomes'))]_vars

\* a failed attempt and a successful one, every audit write stored
C32_Witness ==
    /\ rpc = "done"
    /\ outcomes = <<"http500", "ok">>
    /\ auditLost = 0
    /\ auditLog = <<AuditRecord("SAS_REQUEST", 1),
                    AuditRecord("SAS_RESPONSE_FAILED", 1),
                    AuditRecord("SAS_REQUEST", 2),
                    AuditRecord("SAS_RESPONSE_SUCCESS", 2)>>

\* how a call that has ended must have ended, given the answers its attempts
\* received
ResultOf(answers) ==
    CASE answers = <<>> -> "typeError"
      [] answers # <<>> /\ Last(answers) = "ok" -> "response"
      [] answers # <<>> /\ Last(answers) = "http401" -> "err401"
      [] OTHER -> "err503"

C34_AttemptsAreSequential ==
    [][/\ inFlight' \in {0, 1}
       /\ attempt' # attempt
            => /\ inFlight = 0
               /\ Len(outcomes) = attempt
               /\ attempt >= 1
                    => /\ Last(outcomes) \notin {"ok", "http401"}
                       /\ Len(delays) = attempt
                       /\ Last(delays) = RetryDelayFor(retryDelay, attempt)]_vars

\* the third attempt is in flight after two failures and two delays
C34_Witness ==
    /\ attempt = 3
    /\ inFlight = 1
    /\ Len(outcomes) = 2
    /\ Len(delays) = 2
    /\ rpc = "awaiting"


\* C35: every SasClientService.request call eventually ends, with a response
\* or with an error, when every attempt is answered (or times out) and every
\* retry delay elapses.
RequestEnded == rpc = "done" /\ result # "none" /\ inFlight = 0
C35_RequestEventuallyEnds == <>RequestEnded
\* a call that used every attempt and waited between them has ended
C35_Witness ==
    /\ RequestEnded
    /\ maxRetries = MaxRetriesCap
    /\ attempt = maxRetries
    /\ Len(delays) = maxRetries - 1
    /\ result = "err503"


\* C36: for every configured maxRetries, 0 included, a request call that
\* never obtains a successful response ends with the 401 or with the 503
\* error and with no other failure.
C36_FailureIs401Or503 ==
    (rpc = "done" /\ result # "response")
        => result \in {"err401", "err503"}


---------------------------------------------------------------------------
\* SasClientService.login (unnamed/part_002 181-235): one POST of the
\* encrypted credentials, outside request() and its retry loop.  The calls of
\* one client are made one after the other; `outcomes` keeps the answers of
\* all of them, `attempt` counts the POSTs of the current call.

\* number of login calls followed
MaxLogins == 2

\* what the POST can end with: a 2xx body with a token, a 2xx body without
\* one, a 2xx answer with no body, an error status, or no answer at all
LoginAnswers ==
    {"token", "noToken", "emptyBody", "http401", "http500", "timeout", "network"}

NoThrow == [thrown |-> FALSE, axios |-> FALSE, status |-> 0]

\* what the try block of login() does with the answer: axios rejects on an
\* error status or on no answer; a body with a token is returned; anything
\* else throws the HttpException of lines 211-214, which is not an axios error
LoginTry(answer) ==
    CASE answer = "token" -> NoThrow
      [] answer \in {"noToken", "emptyBody"} ->
            [thrown |-> TRUE, axios |-> FALSE, status |-> 401]
      [] answer = "http401" -> [thrown |-> TRUE, axios |-> TRUE, status |-> 401]
      [] answer = "http500" -> [thrown |-> TRUE, axios |-> TRUE, status |-> 500]
      [] OTHER -> [thrown |-> TRUE, axios |-> TRUE, status |-> 0]

\* the catch block of login(): axios errors become 'Invalid SAS credentials'
\* (401) or 'Failed to connect to SAS system' (503); others are rethrown
LoginCatch_WrapsAll(error) ==
    IF error.status = 401 /\ error.axios THEN "invalidCredentials401"
    ELSE "unavailable503"
LoginCatch(error) ==
    IF error.axios
    THEN IF error.status = 401 THEN "invalidCredentials401"
         ELSE "unavailable503"
    ELSE "noToken401"

LoginResult(answer) ==
    LET tried == LoginTry(answer)
    IN  IF tried.thrown THEN LoginCatch(tried) ELSE "token"

\* `await axiosInstance.post('/admin/api/index.php/api/login', ...)`
LoginDispatch ==
    /\ rpc = "login"
    /\ attempt' = attempt + 1
    /\ inFlight' = inFlight + 1
    /\ rpc' = "awaiting"
    /\ UNCHANGED <<maxRetries, retryDelay, lastError, outcomes, auditLog,
                   auditLost, delays, result>>
    /\ UNCHANGED <<payVars, encVars, tokVars>>

\* the POST is answered and login() returns the token or throws
LoginAnswer ==
    /\ rpc = "awaiting"
    /\ \E answer \in LoginAnswers :
          /\ outcomes' = Append(outcomes, answer)
          /\ result' = LoginResult(answer)
    /\ inFlight' = inFlight - 1
    /\ rpc' = "done"
    /\ UNCHANGED <<maxRetries, retryDelay, attempt, lastError, auditLog,
                   auditLost, delays>>
    /\ UNCHANGED <<payVars, encVars, tokVars>>

\* a caller (getSasToken, agentLogin, completeTopUp) calls login() again
LoginCalled ==
    /\ rpc = "done"
    /\ Len(outcomes) < MaxLogins
    /\ attempt' = 0
    /\ result' = "none"
    /\ rpc' = "login"
    /\ UNCHANGED <<maxRetries, retryDelay, lastError, inFlight, outcomes,
                   auditLog, auditLost, delays>>
    /\ UNCHANGED <<payVars, encVars, tokVars>>

InitLogin ==
    /\ maxRetries \in 0..MaxRetriesCap
    /\ retryDelay \in RetryDelays
    /\ attempt = 0
    /\ lastError = NoError
    /\ rpc = "login"
    /\ inFlight = 0
    /\ outcomes = <<>>
    /\ auditLog = <<>>
    /\ auditLost = 0
    /\ delays = <<>>
    /\ result = "none"
    /\ InitPay
    /\ IdleEnc
    /\ IdleTok

NextLogin ==
    \/ LoginDispatch
    \/ LoginAnswer
    \/ LoginCalled

SpecLogin == InitLogin /\ [][NextLogin]_vars

\* C37: login returns a token only when the response carries a token field;
\* a response without one ends in the authentication failure (401), a 401
\* response in the invalid-credentials failure (401), any other transport
\* failure in service-unavailable (503); each call dispatches exactly one HTTP
\* attempt, whatever maxRetries is, and waits no retry delay.
C37_LoginOutcomes ==
    /\ attempt <= 1
    /\ delays = <<>>
    /\ rpc = "awaiting" => attempt = 1 /\ inFlight = 1
    /\ rpc = "done" =>
          /\ attempt = 1
          /\ inFlight = 0
          /\ result = "token" <=> Last(outcomes) = "token"
          /\ Last(outcomes) \in {"noToken", "emptyBody"} => result = "noToken401"
          /\ Last(outcomes) = "http401" => result = "invalidCredentials401"
          /\ Last(outcomes) \in {"http500", "timeout", "network"}
                => result = "unavailable503"
\* a second login call, with retries configured, ended on a body without a
\* token after one attempt
C37_Witness ==
    /\ rpc = "done"
    /\ maxRetries >= 2
    /\ Len(outcomes) = 2
    /\ outcomes[1] = "timeout"
    /\ outcomes[2] = "noToken"
    /\ result = "noToken401"
    /\ attempt = 1


---------------------------------------------------------------------------
\* QiCardGatewayService's two readers of a provider status
\* (qi-card-gateway.service.ts 103-140 and 276-298), applied to a run of
\* provider answers and notifications.

\* number of gateway readings followed
MaxGatewayCalls == 2

\* what the provider can put in the status field: the values of the payment
\* flow, a lower-case spelling, an empty string, and strings that are property
\* names of every JavaScript object
ProviderStatusValues == QiStatuses \cup {"success", ""} \cup ObjectPrototypeKeys

\* getPaymentStatus with a response body: mapQiStatusToInternal(response.data.status)
GatewayGetPaymentStatus ==
    /\ Len(gatewayResults) < MaxGatewayCalls
    /\ \E qiStatus \in ProviderStatusValues :
          gatewayResults' = Append(gatewayResults,
              [method |-> "getPaymentStatus", qiStatus |-> qiStatus,
               status |-> mapQiStatusToInternal(qiStatus),
               shouldUpdateDatabase |-> FALSE])
    /\ UNCHANGED <<payments, agents, task, settleCalls, deposits, sasAccounts,
                   createAnswer>>
    /\ UNCHANGED <<reqVars, encVars, tokVars>>

\* processWebhookNotification: mapQiStatusToInternal(payload.status)
GatewayProcessWebhookNotification ==
    /\ Len(gatewayResults) < MaxGatewayCalls
    /\ \E qiStatus \in ProviderStatusValues :
          LET status == mapQiStatusToInternal(qiStatus) IN
          gatewayResults' = Append(gatewayResults,
              [method |-> "processWebhookNotification", qiStatus |-> qiStatus,
               status |-> status,
               shouldUpdateDatabase |-> shouldUpdateDatabase(status)])
    /\ UNCHANGED <<payments, agents, task, settleCalls, deposits, sasAccounts,
                   createAnswer>>
    /\ UNCHANGED <<reqVars, encVars, tokVars>>

InitGateway ==
    /\ InitPay
    /\ IdleReq
    /\ IdleEnc
    /\ IdleTok

NextGateway ==
    \/ GatewayGetPaymentStatus
    \/ GatewayProcessWebhookNotification

SpecGateway == InitGateway /\ [][NextGateway]_vars

\* C38: the status mapping used by getPaymentStatus and
\* processWebhookNotification sends SUCCESS to completed, PENDING to pending,
\* FAILED to failed, CANCELLED to cancelled, REFUNDED to refunded, and every
\* other provider status value, a missing one included, to failed.
C38_StatusMapping ==
    \A i \in 1..Len(gatewayResults) :
        LET r == gatewayResults[i] IN
        /\ r.qiStatus = "SUCCESS" => r.status = "completed"
        /\ r.qiStatus = "PENDING" => r.status = "pending"
        /\ r.qiStatus = "FAILED" => r.status = "failed"
        /\ r.qiStatus = "CANCELLED" => r.status = "cancelled"
        /\ r.qiStatus = "REFUNDED" => r.status = "refunded"
        /\ r.qiStatus \notin {"SUCCESS", "PENDING", "FAILED", "CANCELLED",
                              "REFUNDED"} => r.status = "failed"


---------------------------------------------------------------------------
\* UsersService (unnamed/part_007): the agent-facing user operations.  Each
\* one calls authenticateAgent inside its own try block and ends in its own
\* catch block.  `call` holds one record per invocation.

\* number of UsersService invocations followed
MaxUsersCalls == 1

UsersOperations ==
    {"listUsers", "createUser", "getUserById", "listProfiles",
     "getUserActivationData", "activateUser", "changeUserProfile",
     "updateUser", "getUserTraffic"}

\* the agent row behind the username of the caller's session
Identities == {"active", "inactive", "deleted", "unknown", "noSasSystem"}

IdleUsersCall ==
    [pc |-> "idle", op |-> "none", identity |-> "none", agentLoaded |-> FALSE,
     remoteCalls |-> 0, thrown |-> "none", result |-> "none"]

\* authenticateAgent: findFirst({username, deletedAt: null, isActive: true})
\* with sasSystem included; what it throws, "none" when it goes on to getSasToken
authenticateAgentThrows(identity) ==
    IF identity \in {"active"} THEN "none" ELSE "NotFoundException"

\* what the try block of an operation can throw once the agent is loaded:
\* nothing, the HttpException of a failed login or remote call, and the
\* operation's own NotFoundException / BadRequestException
ThrowsAfterAuthentication(op) ==
    {"none", "HttpException"}
        \cup (IF op \in {"activateUser", "changeUserProfile", "updateUser"}
                THEN {"NotFoundException"} ELSE {})
        \cup (IF op \in {"createUser", "updateUser"}
                THEN {"BadRequestException"} ELSE {})

\* the catch block of each operation
UsersCatch(op, thrown, agentLoaded) ==
    CASE op \in {"listUsers", "getUserById", "listProfiles",
                 "getUserActivationData"} -> "UnauthorizedException"
      [] op = "createUser" ->
            IF thrown = "BadRequestException" THEN thrown
            ELSE "UnauthorizedException"
      [] op = "activateUser" ->
            \* the audit record of the failure reads `agent.id`
            IF ~agentLoaded THEN "TypeError"
            ELSE IF thrown \in {"BadRequestException", "NotFoundException"}
                   THEN thrown ELSE "UnauthorizedException"
      [] op \in {"changeUserProfile", "updateUser"} ->
            \* the audit record of the failure reads `agent?.id`
            IF thrown \in {"BadRequestException", "NotFoundException"}
            THEN thrown ELSE "UnauthorizedException"
      [] op = "getUserTraffic" ->
            IF thrown = "NotFoundException" THEN thrown
            ELSE "UnauthorizedException"

\* a controller calls an operation for the username of the session
UsersCalled(c) ==
    /\ call[c].pc = "idle"
    /\ \A d \in 1..(c - 1) : call[d].pc # "idle"
    /\ \E op \in UsersOperations, identity \in Identities :
          call' = [call EXCEPT ![c] =
                      [IdleUsersCall EXCEPT !.pc = "try", !.op = op,
                                            !.identity = identity]]
    /\ UNCHANGED <<now, agentRows, loginsInFlight, issued, rejected, encVars>>
    /\ UNCHANGED <<reqVars, payVars>>

\* the try block: authenticateAgent, then getSasToken and the remote calls
UsersTry(c) ==
    /\ call[c].pc = "try"
    /\ LET lookup == authenticateAgentThrows(call[c].identity) IN
       IF lookup # "none"
         THEN call' = [call EXCEPT ![c].pc = "catch", ![c].thrown = lookup]
         ELSE \E thrown \in ThrowsAfterAuthentication(call[c].op) :
                call' = [call EXCEPT
                    ![c].agentLoaded = TRUE,
                    ![c].remoteCalls = 1,
                    ![c].thrown = thrown,
                    ![c].pc = IF thrown = "none" THEN "done" ELSE "catch",
                    ![c].result = IF thrown = "none" THEN "ok" ELSE "none"]
    /\ UNCHANGED <<now, agentRows, loginsInFlight, issued, rejected, encVars>>
    /\ UNCHANGED <<reqVars, payVars>>

\* the catch block decides what the operation surfaces
UsersCaught(c) ==
    /\ call[c].pc = "catch"
    /\ call' = [call EXCEPT
          ![c].pc = "done",
          ![c].result = UsersCatch(call[c].op, call[c].thrown,
                                   call[c].agentLoaded)]
    /\ UNCHANGED <<now, agentRows, loginsInFlight, issued, rejected, encVars>>
    /\ UNCHANGED <<reqVars, payVars>>

InitUsers ==
    /\ now = 1
    /\ agentRows = [a \in AgentIds |-> NoToken]
    /\ call = [c \in 1..MaxUsersCalls |-> IdleUsersCall]
    /\ loginsInFlight = [a \in AgentIds |-> 0]
    /\ issued = 0
    /\ rejected = [a \in AgentIds |-> {}]
    /\ IdleReq
    /\ InitPay
    /\ IdleEnc

NextUsers ==
    \E c \in 1..MaxUsersCalls :
        \/ UsersCalled(c)
        \/ UsersTry(c)
        \/ UsersCaught(c)

SpecUsers == InitUsers /\ [][NextUsers]_vars

\* C39: every agent-facing operation invoked for an unknown or inactive
\* identity surfaces a not-found error, and its agent lookup fails before any
\* remote call.
C39_UnknownIdentityIsNotFound ==
    \A c \in 1..MaxUsersCalls :
        (call[c].pc = "done"
            /\ call[c].identity \in {"unknown", "inactive", "deleted"})
          => /\ call[c].result = "NotFoundException"
             /\ call[c].remoteCalls = 0


\* C40: the agent status endpoint (AgentsController.checkPaymentStatus through
\* PaymentService.checkPaymentStatus) never issues a deposit to the remote
\* ledger and never invokes completeTopUp, whatever the payment's state and
\* the gateway's answer.
C40_StatusPollNeverSettles ==
    \A t \in Tasks :
        task[t].op = "poll"
          => /\ task[t].pc \in {"poll_gw", "done"}
             /\ task[t].settle = "none"
             /\ \A d \in deposits : d.task # t
\* a poll found the gateway's SUCCESS for a pending top-up and wrote
\* completed; no settlement was started and no deposit exists
C40_Witness ==
    \E t \in Tasks :
        /\ task[t].op = "poll"
        /\ task[t].pc = "done"
        /\ task[t].madeCompleted
        /\ IsTopUp(payments[task[t].pid].serviceType)
        /\ payments[task[t].pid].status = "completed"
        /\ settleCalls[task[t].pid] = 0
        /\ deposits = {}

===========================================================================
